---- MODULE Spec2Model ----
(***************************************************************************)
(* The listing cache of the recipe API (GET /recipes with ETag support,    *)
(* invalidation on PUT/DELETE /recipes/:id and on the bot's publish        *)
(* action), as a state machine over the Node event loop: every handler is  *)
(* cut at its awaits, the database executes a statement at some moment     *)
(* between the await and the continuation, and continuations run           *)
(* atomically.  Line numbers refer to src/unnamed/part_002 unless another  *)
(* file is named; the same handlers are in src/unnamed/part_001:264-339.   *)
(*                                                                         *)
(* Modelling conventions:                                                  *)
(*  - a JSON value is the string of its JSON text;                         *)
(*  - a jsonb document is a function from its keys to JSON texts, read     *)
(*    back in jsonb key order (shorter keys first, then bytewise);          *)
(*  - the server clock and the database clock are one clock, in ms;        *)
(*  - the If-None-Match header of a GET /recipes is read exactly once, on  *)
(*    the hit path (line 214) or on the miss path (line 234), so its value *)
(*    is drawn where it is read.                                           *)
(***************************************************************************)
EXTENDS Integers, Sequences, FiniteSets, TLC

VARIABLES
  now,             \* Date.now() and the database's now(), in ms
  recipes,         \* table recipes: id -> row
  local_recipes,   \* table local_recipes: <<owner, id>> -> row
  RECIPES_CACHE,   \* the cache entry {body, etag, lastmod, ts} (+ origin)
  req,             \* the handlers in flight, by slot
  resp,            \* the response sent by the last step (NoResp: none)
  ver,             \* history: number of committed writes to recipes
  acked,           \* history: newest write whose response has been sent
  ackedAt,         \* history: when that response was sent
  lver,            \* history: number of committed writes to local_recipes
  users            \* table users: tg_id -> row

vars == <<now, recipes, local_recipes, lver, users, RECIPES_CACHE, req, resp,
          ver, acked, ackedAt>>

-----------------------------------------------------------------------------
(* Bounds *)

\* ms the clock advances in one Tick
TickMs == 16000
\* the clock stops after MaxTicks ticks
MaxTicks == 1
\* writes to the table recipes in one behaviour
MaxWrites == 1
\* writes to the table local_recipes in one behaviour
MaxLocalWrites == 2
\* writes to the table recipes in one behaviour of the PUT/DELETE handlers alone
MaxStoreWrites == 2

\* the clock also advances in steps shorter than the freshness window
StepMs == 5000
\* the number of such steps
MaxSteps == 3

-----------------------------------------------------------------------------
(* Program constants *)

CACHE_TTL_MS == 15000

CACHE_CONTROL == "public, max-age=30, stale-while-revalidate=300"

-----------------------------------------------------------------------------
(* Inputs *)

Ids == {"a", "b"}

\* X-Owner-Id values; the bot's owner is tg:<ctx.from.id>
BotUsers == {"7"}
Owners == {"tg:7", "guest"}

\* the keys a document may carry, in jsonb order
KeyOrder == <<"id", "done", "cover", "parts", "steps", "title", "favorite",
              "createdAt", "categories", "description", "ingredients">>

JsonStr(s) == "\"" \o s \o "\""

\* req.body.recipe of a PUT: objects (one carrying an id of its own)
RecipeObjects == { [title |-> JsonStr("soup")],
                   [id |-> JsonStr("zz"), title |-> JsonStr("cake")] }

\* req.body without a recipe object
NoRecipe == [missing |-> "1"]

\* req.body.recipe that is no object: absent, null, a string, a number
NotObjects == { NoRecipe, [null |-> "1"], [string |-> JsonStr("soup")],
                [number |-> "5"] }

\* typeof recipe
typeof(v) ==
  IF "missing" \in DOMAIN v THEN "undefined"
  ELSE IF "string" \in DOMAIN v THEN "string"
  ELSE IF "number" \in DOMAIN v THEN "number"
  ELSE "object"

\* !recipe: undefined and null are falsy (the string and the number tried
\* are not empty and not zero)
Falsy(v) == "missing" \in DOMAIN v \/ "null" \in DOMAIN v

\* a check that only tests !recipe
RecipeRejectedFalsyOnly(recipe) == Falsy(recipe)

\* lines 268 and 323: !recipe || typeof recipe !== "object"
RecipeRejected(recipe) == Falsy(recipe) \/ typeof(recipe) # "object"

NoData == [k \in {} |-> ""]

NoRow == [present |-> FALSE, data |-> NoData, created_at |-> 0, updated_at |-> 0]

\* the keys of the table users that occur: two Telegram ids, and the text
\* String() makes of an absent id
UserIds == {"7", "8", "undefined"}

\* no row of the table users; bot_enabled is the column of that name
\* unlinkAcked is history: POST /auth/telegram/unlink has been answered ok for
\* the user and no update of /auth/telegram/link has run since
NoUser == [present |-> FALSE, bot_enabled |-> FALSE, unlinkAcked |-> FALSE]

-----------------------------------------------------------------------------
(* Pure functions *)

\* the handlers that can be in flight at once
Slots == {1, 2}

RECURSIVE Join(_, _)
Join(strs, sep) ==
  IF Len(strs) = 0 THEN ""
  ELSE IF Len(strs) = 1 THEN strs[1]
  ELSE strs[1] \o sep \o Join(Tail(strs), sep)

JsonbKeys(d) == SelectSeq(KeyOrder, LAMBDA k : k \in DOMAIN d)

\* JSON.stringify of an object given as <<key, JSON text>> pairs
StringifyPairs(pairs) ==
  "{" \o Join([i \in 1..Len(pairs) |-> JsonStr(pairs[i][1]) \o ":" \o pairs[i][2]], ",")
      \o "}"

\* a projection that lets the stored body's own id win: { id: r.id, ...r.data }
SpreadIdFirst(r) ==
  LET ks == SelectSeq(JsonbKeys(r.data), LAMBDA k : k # "id")
      own == [i \in 1..Len(ks) |-> <<ks[i], r.data[ks[i]]>>]
  IN  <<<<"id", IF "id" \in DOMAIN r.data THEN r.data["id"] ELSE JsonStr(r.id)>>>> \o own

\* ({ ...r.data, id: r.id }): the id replaces data.id in place, or comes last
SpreadWithId(r) ==
  LET ks == JsonbKeys(r.data)
      own == [i \in 1..Len(ks) |->
                <<ks[i], IF ks[i] = "id" THEN JsonStr(r.id) ELSE r.data[ks[i]]>>]
  IN  IF "id" \in DOMAIN r.data THEN own ELSE Append(own, <<"id", JsonStr(r.id)>>)

\* JSON.stringify(rows.map(r => ({ ...r.data, id: r.id })))
BodyOf(rows) ==
  "[" \o Join([i \in 1..Len(rows) |-> StringifyPairs(SpreadWithId(rows[i]))], ",") \o "]"

\* rows[0]?.updated_at ? new Date(rows[0].updated_at) : new Date()
MaxUpdated(rows, t) == IF Len(rows) > 0 THEN rows[1].updated_at ELSE t

\* `"r${count}-${+maxUpdated}"`
ETagOf(rows, t) ==
  "\"r" \o ToString(Len(rows)) \o "-" \o ToString(MaxUpdated(rows, t)) \o "\""

\* Date.prototype.toUTCString: an HTTP date, which has whole seconds only
toUTCString(ms) == "epoch+" \o ToString(ms \div 1000) \o "s GMT"

LastModOf(rows, t) == toUTCString(MaxUpdated(rows, t))

\* select id, data, updated_at from recipes order by updated_at desc:
\* every order of the rows that is descending in updated_at (ties in any order)
RowOf(tbl, id) == [id |-> id, data |-> tbl[id].data, updated_at |-> tbl[id].updated_at]

RECURSIVE Perms(_)
Perms(S) ==
  IF S = {} THEN { <<>> }
  ELSE UNION { { <<x>> \o p : p \in Perms(S \ {x}) } : x \in S }

SelectOrdered(tbl) ==
  LET present == { id \in DOMAIN tbl : tbl[id].present }
      seqs == { [i \in 1..Len(p) |-> RowOf(tbl, p[i])] : p \in Perms(present) }
  IN  { s \in seqs : \A i \in 1..(Len(s) - 1) : s[i].updated_at >= s[i + 1].updated_at }

-----------------------------------------------------------------------------
(* The cache entry *)

NoSrc == [rows |-> <<>>, at |-> 0, ver |-> 0]

\* let RECIPES_CACHE = { body: "", etag: "", lastmod: "", ts: 0 }
\* (src is history: the snapshot the entry was computed from)
EmptyCache == [body |-> "", etag |-> "", lastmod |-> "", ts |-> 0, src |-> NoSrc]

\* a partial invalidation: the etag is left behind
invalidateKeepsEtag(c) ==
  [c EXCEPT !.body = "", !.lastmod = "", !.ts = 0, !.src = NoSrc]

invalidateRecipesCache(c) ==
  [c EXCEPT !.body = "", !.etag = "", !.lastmod = "", !.ts = 0, !.src = NoSrc]

\* RECIPES_CACHE.body && Date.now() - RECIPES_CACHE.ts < CACHE_TTL_MS
IsFresh(c, t) == c.body # "" /\ t - c.ts < CACHE_TTL_MS

\* a population that forgets the etag
StoreInCacheNoEtag(c, body, etag, lastmod, t, src) ==
  [c EXCEPT !.body = body, !.lastmod = lastmod, !.ts = t, !.src = src]

\* RECIPES_CACHE.body = body; .etag = etag; .lastmod = lastmod; .ts = Date.now()
StoreInCache(c, body, etag, lastmod, t, src) ==
  [c EXCEPT !.body = body, !.etag = etag, !.lastmod = lastmod, !.ts = t, !.src = src]

-----------------------------------------------------------------------------
(* Requests and responses *)

NoHeader == "(no If-None-Match)"

\* the header values tried where the header is compared with etag e: absent,
\* equal, the weak form of it, and the token of the store as it is now
InmChoices(e) ==
  {NoHeader, e, "W/" \o e} \cup { ETagOf(r, now) : r \in SelectOrdered(recipes) }

\* a login payload with none of the fields the handlers read
NoPayload == [hash |-> "", auth_date |-> 0, id |-> "undefined", user |-> "undefined"]

\* let lastErr = null; afterwards { http, data } of a refused send, or the
\* exception of one that threw
NoErr == [http |-> "-", data |-> "-"]

\* a handler in flight: where it is, and what its continuation still uses;
\* rver is history: the number of writes committed when its statement ran;
\* txStart is the start of the transaction its database client has open;
\* attempt numbers the send to the messaging relay that is in flight and
\* timer is the delay of the abort timer armed for it (0: none armed); http
\* is the status class of the relay's answer once fetch has resolved; lastErr
\* is the handler's variable of that name: how the latest failed send ended;
\* creds and title are the handler's BOT/CHAT (both set or not) and title;
\* route and payload are the login endpoint that runs and the payload it
\* was called with (req.body or req.query)
Free == [pc |-> "free", id |-> "-", owner |-> "-", data |-> NoData, rows |-> <<>>,
         rver |-> 0, txStart |-> 0, attempt |-> 0, timer |-> 0, http |-> "-",
         lastErr |-> NoErr, creds |-> FALSE, title |-> [type |-> "undefined", chars |-> <<>>],
         route |-> "-", payload |-> NoPayload]

\* inm is the request's If-None-Match; hit and rver are history: whether the
\* response was served from the cache entry, and the number of writes
\* committed when the snapshot behind it was taken (for a write: its own number);
\* relay is history too: how the send that decided a POST /orders ended;
\* jwt is the sub of the token in the body, cookie that of the rp_jwt cookie
NoResp == [kind |-> "-", status |-> 0, body |-> "", etag |-> "", lastmod |-> "",
           cc |-> "", inm |-> NoHeader, hit |-> FALSE, rver |-> 0, relay |-> NoErr,
           jwt |-> "", cookie |-> ""]

Reply(kind, status, body) ==
  [NoResp EXCEPT !.kind = kind, !.status = status, !.body = body]

WritePcs == {"put_await", "put_ok", "put_err", "del_await", "del_ok", "del_err",
             "pub_sel", "pub_rows", "pub_none", "pub_selerr", "pub_await", "pub_ok", "pub_err",
             "use_sel", "use_ok", "use_no", "use_err"}

LocalWritePcs == {"lput_await", "lput_ok", "lput_err", "ldel_await", "ldel_ok", "ldel_err",
                  "bulk_begin", "bulk_ins", "bulk_ok", "bulk_err",
                  "mig_begin", "mig_ins", "mig_del", "mig_ok", "mig_err"}

WritesInFlight == Cardinality({ s \in Slots : req[s].pc \in WritePcs })

LocalWritesInFlight == Cardinality({ s \in Slots : req[s].pc \in LocalWritePcs })

LocalWrites ==
  Cardinality({ k \in DOMAIN local_recipes : local_recipes[k].present })

\* the row k of local_recipes is locked by a migration that has inserted or
\* updated it and not yet committed: a statement of another transaction that
\* writes the row waits for the commit or the rollback
Locked(k) ==
  \E r \in Slots : /\ req[r].pc = "mig_del" /\ k[1] = req[r].owner
                    /\ \E i \in 1..Len(req[r].rows) : req[r].rows[i].id = k[2]

\* a new request takes the lowest free slot
Takes(s) == req[s].pc = "free" /\ \A r \in Slots : r < s => req[r].pc # "free"

-----------------------------------------------------------------------------
(* GET /recipes *)

\* lines 220 and 247: res.send of Express, after the handler's res.set calls.
\* For a GET with a 2xx status send tests req.fresh: the If-None-Match of the
\* request against the ETag header of the response, by the weak comparison of
\* conditional requests (W/ prefixes on either side are ignored). The request
\* carries no If-Modified-Since.
fresh(inm, etag) ==
  /\ inm # NoHeader
  /\ etag # ""
  /\ \/ inm = etag
     \/ inm = "W/" \o etag
     \/ "W/" \o inm = etag

\* res.send: a fresh request is answered 304 with the body dropped; the ETag,
\* Last-Modified and Cache-Control headers already set stay on the response
send(r) ==
  IF r.kind = "GET" /\ r.status = 200 /\ fresh(r.inm, r.etag)
  THEN [r EXCEPT !.status = 304, !.body = ""]
  ELSE r

\* an answer from the entry that forgets Last-Modified
HitResponseNoLastMod(c, inm) ==
  IF inm = c.etag
  THEN [Reply("GET", 304, "") EXCEPT !.inm = inm]
  ELSE [Reply("GET", 200, c.body) EXCEPT !.etag = c.etag, !.cc = CACHE_CONTROL,
                                         !.inm = inm]

\* lines 214-220: the answer from a fresh entry
HitResponse(c, inm) ==
  IF inm = c.etag
  THEN [Reply("GET", 304, "") EXCEPT !.inm = inm]
  ELSE send([Reply("GET", 200, c.body) EXCEPT !.etag = c.etag, !.lastmod = c.lastmod,
                                              !.cc = CACHE_CONTROL, !.inm = inm])

\* lines 234-236 and 244-247: the answer after a recomputation
MissResponse(rows, t, inm) ==
  IF inm = ETagOf(rows, t)
  THEN [Reply("GET", 304, "") EXCEPT !.inm = inm]
  ELSE send([Reply("GET", 200, BodyOf(rows)) EXCEPT !.etag = ETagOf(rows, t),
                                                    !.lastmod = LastModOf(rows, t),
                                                    !.cc = CACHE_CONTROL, !.inm = inm])

\* a recomputation that fills the entry only when it is empty
MissCacheIfEmpty(c, rows, v, t, inm) ==
  IF inm = ETagOf(rows, t) \/ c.body # "" THEN c
  ELSE StoreInCache(c, BodyOf(rows), ETagOf(rows, t), LastModOf(rows, t), t,
                    [rows |-> rows, at |-> t, ver |-> v])

\* lines 234-242: the entry after a recomputation
MissCache(c, rows, v, t, inm) ==
  IF inm = ETagOf(rows, t) THEN c
  ELSE StoreInCache(c, BodyOf(rows), ETagOf(rows, t), LastModOf(rows, t), t,
                    [rows |-> rows, at |-> t, ver |-> v])

\* a catch block that also drops the entry
GetCatchInvalidates(c) == invalidateRecipesCache(c)

\* lines 248-251: catch (e) { res.status(500).json({ error: "internal" }) },
\* which leaves the entry alone
GetCatchCache(c) == c

\* a hit that restarts the freshness window
HitCacheTouches(c, t) == [c EXCEPT !.ts = t]

\* lines 213-221: the hit path reads RECIPES_CACHE and assigns none of its
\* fields
HitCache(c, t) == c

\* lines 210 and 433 (427 is GET /recipes/:id/exists, 442 GET /recipes/:id):
\* the routes registered on GET paths under /recipes, in the order of their
\* app.get calls
Layers ==
  << [method |-> "GET", path |-> "/recipes", handler |-> "cached"],
     [method |-> "GET", path |-> "/recipes/:id/exists", handler |-> "exists"],
     [method |-> "GET", path |-> "/recipes", handler |-> "no-store"],
     [method |-> "GET", path |-> "/recipes/:id", handler |-> "one"] >>

Matches(layer, method, path) == layer.method = method /\ layer.path = path

\* a router that gives the request to the route registered last
RouteLast(method, path) ==
  Layers[CHOOSE i \in 1..Len(Layers) :
           /\ Matches(Layers[i], method, path)
           /\ \A j \in (i + 1)..Len(Layers) : ~Matches(Layers[j], method, path)].handler

\* the router of Express walks the routes in the order of registration and
\* gives the request to the first that matches; a later one runs only when
\* the handler calls next(), which the handler of line 210 does not take as a
\* parameter
Route(method, path) ==
  Layers[CHOOSE i \in 1..Len(Layers) :
           /\ Matches(Layers[i], method, path)
           /\ \A j \in 1..(i - 1) : ~Matches(Layers[j], method, path)].handler

\* lines 210-223: the handler up to its await; lines 433-434: the handler of
\* the later registration up to its await
GetRecipes(s) ==
  /\ Takes(s)
  /\ IF Route("GET", "/recipes") = "no-store"
     THEN /\ req' = [req EXCEPT ![s] = [Free EXCEPT !.pc = "get_await",
                                                    !.route = "no-store"]]
          /\ resp' = NoResp
          /\ UNCHANGED RECIPES_CACHE
     ELSE IF IsFresh(RECIPES_CACHE, now)
     THEN /\ \E inm \in InmChoices(RECIPES_CACHE.etag) :
               resp' = [HitResponse(RECIPES_CACHE, inm) EXCEPT
                          !.hit = TRUE, !.rver = RECIPES_CACHE.src.ver]
          /\ RECIPES_CACHE' = HitCache(RECIPES_CACHE, now)
          /\ UNCHANGED req
     ELSE /\ req' = [req EXCEPT ![s] =
                       [Free EXCEPT !.pc = "get_await", !.route = "cached"]]
          /\ resp' = NoResp
          /\ UNCHANGED RECIPES_CACHE
  /\ UNCHANGED <<now, recipes, local_recipes, lver, ver, acked, ackedAt>>
  /\ UNCHANGED users

\* lines 223-225: the database runs the select, or fails
DbSelectRecipes(s) ==
  /\ req[s].pc = "get_await"
  /\ \/ \E rows \in SelectOrdered(recipes) :
          req' = [req EXCEPT ![s].pc = "get_rows", ![s].rows = rows, ![s].rver = ver]
     \/ req' = [req EXCEPT ![s].pc = "get_err"]
  /\ UNCHANGED <<now, recipes, local_recipes, lver, RECIPES_CACHE, ver, acked, ackedAt>>
  /\ resp' = NoResp
  /\ UNCHANGED users

\* lines 226-247: the continuation after the select; lines 437-439: that
\* of the later registration, Cache-Control no-store and the list
GetRecipesResume(s) ==
  /\ req[s].pc = "get_rows"
  /\ LET rows == req[s].rows
     IN  IF req[s].route = "no-store"
         THEN /\ resp' = [Reply("GET", 200, BodyOf(rows)) EXCEPT !.cc = "no-store"]
              /\ UNCHANGED RECIPES_CACHE
         ELSE \E inm \in InmChoices(ETagOf(rows, now)) :
                /\ RECIPES_CACHE' = MissCache(RECIPES_CACHE, rows, req[s].rver, now, inm)
                /\ resp' = [MissResponse(rows, now, inm) EXCEPT !.rver = req[s].rver]
  /\ req' = [req EXCEPT ![s] = Free]
  /\ UNCHANGED <<now, recipes, local_recipes, lver, ver, acked, ackedAt>>
  /\ UNCHANGED users

\* lines 248-251: the continuation after a failed select; the handler of
\* line 433 has no catch, its rejected query is not caught
GetRecipesCatch(s) ==
  /\ req[s].pc = "get_err"
  /\ RECIPES_CACHE' = GetCatchCache(RECIPES_CACHE)
  /\ IF req[s].route = "no-store"
     THEN \E status \in {0, 500} :
            resp' = Reply("GET", status,
                          IF status = 500 THEN "Internal Server Error" ELSE "")
     ELSE resp' = Reply("GET", 500, "{\"error\":\"internal\"}")
  /\ req' = [req EXCEPT ![s] = Free]
  /\ UNCHANGED <<now, recipes, local_recipes, lver, ver, acked, ackedAt>>
  /\ UNCHANGED users

-----------------------------------------------------------------------------
(* The tables *)

\* insert into recipes (id, data) values ($1, $2)
\*   on conflict (id) do update set data = excluded.data
\* created_at and updated_at default to now() on insert (lines 85-86); the
\* trigger touch_updated_at sets updated_at = now() on update (lines 116-126)
Upsert(tbl, key, data, t) ==
  [tbl EXCEPT ![key] =
     IF tbl[key].present
     THEN [tbl[key] EXCEPT !.data = data, !.updated_at = t]
     ELSE [present |-> TRUE, data |-> data, created_at |-> t, updated_at |-> t]]

\* delete from recipes where id = $1
Delete(tbl, key) == [tbl EXCEPT ![key] = NoRow]

CanWrite == ver + WritesInFlight < MaxWrites

CanWriteAgain == ver + WritesInFlight < MaxStoreWrites

CanWriteLocal == lver + LocalWritesInFlight < MaxLocalWrites

Max(a, b) == IF a >= b THEN a ELSE b

-----------------------------------------------------------------------------
(* PUT /recipes/:id and DELETE /recipes/:id *)

\* lines 266-275: the handler up to its await
PutRecipe(s, id, recipe) ==
  /\ Takes(s)
  /\ IF RecipeRejected(recipe)
     THEN /\ resp' = Reply("PUT", 400, "{\"error\":\"body.recipe required\"}")
          /\ UNCHANGED req
     ELSE /\ req' = [req EXCEPT ![s] = [Free EXCEPT !.pc = "put_await", !.id = id,
                                                    !.data = recipe]]
          /\ resp' = NoResp
  /\ UNCHANGED <<now, recipes, local_recipes, lver, RECIPES_CACHE,
                 ver, acked, ackedAt>>
  /\ UNCHANGED users

\* lines 271-275 and 751-755: the database runs the upsert, or fails
DbUpsertRecipe(s) ==
  /\ req[s].pc \in {"put_await", "pub_await"}
  /\ LET ok == IF req[s].pc = "put_await" THEN "put_ok" ELSE "pub_ok"
         err == IF req[s].pc = "put_await" THEN "put_err" ELSE "pub_err"
     IN  \/ /\ recipes' = Upsert(recipes, req[s].id, req[s].data, now)
            /\ ver' = ver + 1
            /\ req' = [req EXCEPT ![s] = [Free EXCEPT !.pc = ok, !.rver = ver + 1]]
         \/ /\ req' = [req EXCEPT ![s] = [Free EXCEPT !.pc = err]]
            /\ UNCHANGED <<recipes, ver>>
  /\ UNCHANGED <<now, local_recipes, lver, RECIPES_CACHE, acked, ackedAt>>
  /\ resp' = NoResp
  /\ UNCHANGED users

\* lines 276-277: invalidateRecipesCache(); res.json({ ok: true })
PutRecipeResume(s) ==
  /\ req[s].pc = "put_ok"
  /\ RECIPES_CACHE' = invalidateRecipesCache(RECIPES_CACHE)
  /\ resp' = [Reply("PUT", 200, "{\"ok\":true}") EXCEPT !.rver = req[s].rver]
  /\ acked' = Max(acked, req[s].rver)
  /\ ackedAt' = now
  /\ req' = [req EXCEPT ![s] = Free]
  /\ UNCHANGED <<now, recipes, local_recipes, lver, ver>>
  /\ UNCHANGED users

\* lines 281-282: the handler up to its await
DeleteRecipe(s, id) ==
  /\ Takes(s)
  /\ req' = [req EXCEPT ![s] = [Free EXCEPT !.pc = "del_await", !.id = id]]
  /\ UNCHANGED <<now, recipes, local_recipes, lver, RECIPES_CACHE, ver, acked, ackedAt>>
  /\ resp' = NoResp
  /\ UNCHANGED users

\* line 282: the database runs the delete, or fails
DbDeleteRecipe(s) ==
  /\ req[s].pc = "del_await"
  /\ \/ /\ recipes' = Delete(recipes, req[s].id)
        /\ ver' = ver + 1
        /\ req' = [req EXCEPT ![s] = [Free EXCEPT !.pc = "del_ok", !.rver = ver + 1]]
     \/ /\ req' = [req EXCEPT ![s] = [Free EXCEPT !.pc = "del_err"]]
        /\ UNCHANGED <<recipes, ver>>
  /\ UNCHANGED <<now, local_recipes, lver, RECIPES_CACHE, acked, ackedAt>>
  /\ resp' = NoResp
  /\ UNCHANGED users

\* lines 283-284: invalidateRecipesCache(); res.status(204).end()
DeleteRecipeResume(s) ==
  /\ req[s].pc = "del_ok"
  /\ RECIPES_CACHE' = invalidateRecipesCache(RECIPES_CACHE)
  /\ resp' = [Reply("DELETE", 204, "") EXCEPT !.rver = req[s].rver]
  /\ acked' = Max(acked, req[s].rver)
  /\ ackedAt' = now
  /\ req' = [req EXCEPT ![s] = Free]
  /\ UNCHANGED <<now, recipes, local_recipes, lver, ver>>
  /\ UNCHANGED users

\* lines 266-285: neither handler catches a rejected query, so the handler's
\* promise rejects.  What the client gets depends on the framework the build
\* installs: Express 4 ignores the promise and sends nothing (status 0 here),
\* Express 5 hands the rejection to its default error handler (500)
WriteRejected(s) ==
  /\ req[s].pc \in {"put_err", "del_err"}
  /\ \E status \in {0, 500} :
       resp' = Reply(IF req[s].pc = "put_err" THEN "PUT" ELSE "DELETE", status,
                     IF status = 500 THEN "Internal Server Error" ELSE "")
  /\ req' = [req EXCEPT ![s] = Free]
  /\ UNCHANGED <<now, recipes, local_recipes, lver, RECIPES_CACHE,
                 ver, acked, ackedAt>>
  /\ UNCHANGED users

-----------------------------------------------------------------------------
(* PUT /local/recipes/:id *)

\* line 327: const data = { ...recipe, id: req.params.id }
WithId(recipe, id) ==
  [k \in (DOMAIN recipe) \cup {"id"} |-> IF k = "id" THEN JsonStr(id) ELSE recipe[k]]

\* a /local/recipes handler that invalidates the listing entry
LocalCacheInvalidates(c) == invalidateRecipesCache(c)

\* the /local/recipes handlers never name RECIPES_CACHE (lines 292-423)
LocalCache(c) == c

\* lines 318-333: the handler up to its await (owner "" is a missing X-Owner-Id)
LocalPutRecipe(s, owner, id, recipe) ==
  /\ Takes(s)
  /\ IF owner = ""
     THEN /\ resp' = Reply("LPUT", 400, "{\"error\":\"owner required\"}")
          /\ UNCHANGED req
     ELSE IF RecipeRejected(recipe)
     THEN /\ resp' = Reply("LPUT", 400, "{\"error\":\"body.recipe required\"}")
          /\ UNCHANGED req
     ELSE /\ req' = [req EXCEPT ![s] = [Free EXCEPT !.pc = "lput_await", !.id = id,
                                                    !.owner = owner,
                                                    !.data = WithId(recipe, id)]]
          /\ resp' = NoResp
  /\ UNCHANGED <<now, recipes, local_recipes, lver, RECIPES_CACHE,
                 ver, acked, ackedAt>>
  /\ UNCHANGED users

\* lines 329-333: the database runs the upsert (on conflict: data and
\* updated_at = now()), or fails
DbUpsertLocal(s) ==
  /\ req[s].pc = "lput_await"
  /\ \/ /\ ~Locked(<<req[s].owner, req[s].id>>)
        /\ local_recipes' = Upsert(local_recipes, <<req[s].owner, req[s].id>>,
                                   req[s].data, now)
        /\ lver' = lver + 1
        /\ req' = [req EXCEPT ![s] = [Free EXCEPT !.pc = "lput_ok"]]
     \/ /\ req' = [req EXCEPT ![s] = [Free EXCEPT !.pc = "lput_err"]]
        /\ UNCHANGED <<local_recipes, lver>>
  /\ UNCHANGED <<now, recipes, RECIPES_CACHE, ver, acked, ackedAt>>
  /\ resp' = NoResp
  /\ UNCHANGED users

\* line 335: res.json({ ok: true }); a rejected query is not caught (see
\* WriteRejected)
LocalPutResume(s) ==
  /\ req[s].pc \in {"lput_ok", "lput_err"}
  /\ IF req[s].pc = "lput_ok"
     THEN resp' = Reply("LPUT", 200, "{\"ok\":true}")
     ELSE \E status \in {0, 500} :
            resp' = Reply("LPUT", status,
                          IF status = 500 THEN "Internal Server Error" ELSE "")
  /\ RECIPES_CACHE' = LocalCache(RECIPES_CACHE)
  /\ req' = [req EXCEPT ![s] = Free]
  /\ UNCHANGED <<now, recipes, local_recipes, lver, ver, acked, ackedAt>>
  /\ UNCHANGED users

-----------------------------------------------------------------------------
(* DELETE /local/recipes/:id, lines 339-348 *)

\* lines 339-346: the handler up to its await
LocalDeleteRecipe(s, owner, id) ==
  /\ Takes(s)
  /\ IF owner = ""
     THEN /\ resp' = Reply("LDELETE", 400, "{\"error\":\"owner required\"}")
          /\ UNCHANGED req
     ELSE /\ req' = [req EXCEPT ![s] = [Free EXCEPT !.pc = "ldel_await", !.id = id,
                                                    !.owner = owner]]
          /\ resp' = NoResp
  /\ UNCHANGED <<now, recipes, local_recipes, lver, RECIPES_CACHE,
                 ver, acked, ackedAt>>
  /\ UNCHANGED users

\* lines 343-346: the database runs the delete, or fails
DbDeleteLocal(s) ==
  /\ req[s].pc = "ldel_await"
  /\ \/ /\ ~(Locked(<<req[s].owner, req[s].id>>)
               /\ local_recipes[<<req[s].owner, req[s].id>>].present)
        /\ local_recipes' = Delete(local_recipes, <<req[s].owner, req[s].id>>)
        /\ lver' = lver + 1
        /\ req' = [req EXCEPT ![s] = [Free EXCEPT !.pc = "ldel_ok"]]
     \/ /\ req' = [req EXCEPT ![s] = [Free EXCEPT !.pc = "ldel_err"]]
        /\ UNCHANGED <<local_recipes, lver>>
  /\ UNCHANGED <<now, recipes, RECIPES_CACHE, ver, acked, ackedAt>>
  /\ resp' = NoResp
  /\ UNCHANGED users

\* line 347: res.status(204).end(); a rejected query is not caught
LocalDeleteResume(s) ==
  /\ req[s].pc \in {"ldel_ok", "ldel_err"}
  /\ IF req[s].pc = "ldel_ok"
     THEN resp' = Reply("LDELETE", 204, "")
     ELSE \E status \in {0, 500} :
            resp' = Reply("LDELETE", status,
                          IF status = 500 THEN "Internal Server Error" ELSE "")
  /\ RECIPES_CACHE' = LocalCache(RECIPES_CACHE)
  /\ req' = [req EXCEPT ![s] = Free]
  /\ UNCHANGED <<now, recipes, local_recipes, lver, ver, acked, ackedAt>>
  /\ UNCHANGED users

-----------------------------------------------------------------------------
(* POST /local/recipes/bulk, lines 351-386 *)

\* (x->>'id')::text of an element of the array: the key its row gets
HasKeyId(x) == "id" \in DOMAIN x /\ \E id \in Ids : JsonStr(id) = x.id

KeyId(x) == CHOOSE id \in Ids : JsonStr(id) = x.id

\* the insert of lines 364-375 violates "id text not null" when an element has
\* no id, and cannot update one row twice
BulkFails(arr) ==
  \/ \E i \in 1..Len(arr) : ~HasKeyId(arr[i])
  \/ \E i, k \in 1..Len(arr) : i # k /\ arr[i].id = arr[k].id

\* insert into local_recipes (owner, id, data) select $2, id, data from src
\*   on conflict (owner, id) do update set data = excluded.data
\* now() is the start of the transaction
RECURSIVE BulkUpsert(_, _, _, _)
BulkUpsert(tbl, owner, arr, t) ==
  IF Len(arr) = 0 THEN tbl
  ELSE BulkUpsert(Upsert(tbl, <<owner, KeyId(arr[1])>>, arr[1], t), owner, Tail(arr), t)

\* lines 351-360: the handler up to "begin" (req.body.recipes that is not an
\* array counts as the empty array)
LocalBulk(s, owner, arr) ==
  /\ Takes(s)
  /\ IF owner = ""
     THEN /\ resp' = Reply("LBULK", 400, "{\"error\":\"owner required\"}")
          /\ UNCHANGED req
     ELSE IF Len(arr) = 0
     THEN /\ resp' = Reply("LBULK", 200, "{\"ok\":true,\"count\":0}")
          /\ UNCHANGED req
     ELSE /\ req' = [req EXCEPT ![s] = [Free EXCEPT !.pc = "bulk_begin",
                                                    !.owner = owner, !.rows = arr]]
          /\ resp' = NoResp
  /\ UNCHANGED <<now, recipes, local_recipes, lver, RECIPES_CACHE,
                 ver, acked, ackedAt>>
  /\ UNCHANGED users

\* lines 360 and 401: the database starts the transaction; from here now() is
\* this moment for every statement of the transaction
DbBegin(s) ==
  /\ req[s].pc \in {"bulk_begin", "mig_begin"}
  /\ \/ req' = [req EXCEPT ![s].pc = IF req[s].pc = "bulk_begin" THEN "bulk_ins"
                                     ELSE "mig_ins",
                           ![s].txStart = now]
     \/ req' = [req EXCEPT ![s] = [Free EXCEPT !.pc = IF req[s].pc = "bulk_begin"
                                                      THEN "bulk_err" ELSE "mig_err"]]
  /\ UNCHANGED <<now, recipes, local_recipes, lver, RECIPES_CACHE,
                 ver, acked, ackedAt>>
  /\ resp' = NoResp
  /\ UNCHANGED users

\* lines 362-377: the database runs the insert and commits, or a statement
\* fails and nothing is written
DbBulkUpsert(s) ==
  /\ req[s].pc = "bulk_ins"
  /\ \/ /\ ~BulkFails(req[s].rows)
        /\ \A i \in 1..Len(req[s].rows) :
             ~Locked(<<req[s].owner, KeyId(req[s].rows[i])>>)
        /\ local_recipes' = BulkUpsert(local_recipes, req[s].owner, req[s].rows,
                                       req[s].txStart)
        /\ lver' = lver + 1
        /\ req' = [req EXCEPT ![s] = [Free EXCEPT !.pc = "bulk_ok",
                                                  !.rows = req[s].rows]]
     \/ /\ req' = [req EXCEPT ![s] = [Free EXCEPT !.pc = "bulk_err"]]
        /\ UNCHANGED <<local_recipes, lver>>
  /\ UNCHANGED <<now, recipes, RECIPES_CACHE, ver, acked, ackedAt>>
  /\ resp' = NoResp
  /\ UNCHANGED users

\* line 378: res.json({ ok: true, count: arr.length }); lines 379-382:
\* rollback and 500
LocalBulkResume(s) ==
  /\ req[s].pc \in {"bulk_ok", "bulk_err"}
  /\ resp' = IF req[s].pc = "bulk_ok"
             THEN Reply("LBULK", 200,
                        "{\"ok\":true,\"count\":" \o ToString(Len(req[s].rows)) \o "}")
             ELSE Reply("LBULK", 500, "{\"error\":\"internal\"}")
  /\ RECIPES_CACHE' = LocalCache(RECIPES_CACHE)
  /\ req' = [req EXCEPT ![s] = Free]
  /\ UNCHANGED <<now, recipes, local_recipes, lver, ver, acked, ackedAt>>
  /\ UNCHANGED users

-----------------------------------------------------------------------------
(* POST /local/recipes/migrate, lines 391-423 *)

\* lines 402-412, with from # to:
\* insert into local_recipes (owner, id, data, created_at, updated_at)
\*   select $2, id, data, created_at, updated_at from local_recipes where owner = $1
\*   on conflict (owner, id) do update set data = excluded.data,
\*                                         updated_at = excluded.updated_at
\* The rows of "from" that the select of this statement sees, in the order
\* of their ids
IdOrder == <<"a", "b">>

CopiedRows(tbl, from) ==
  LET present == SelectSeq(IdOrder, LAMBDA id : tbl[<<from, id>>].present)
  IN  [i \in 1..Len(present) |-> [id |-> present[i], row |-> tbl[<<from, present[i]>>]]]

\* lines 402-414: the table after the commit. The rows copied by the insert
\* are in "to": on the update path the trigger touch_updated_at (lines
\* 116-132) replaces the assigned updated_at by now(), the start of the
\* transaction. Then
\* delete from local_recipes where owner = $1
\* has removed the rows "from" has when that statement runs
MigrateRows(tbl, copied, from, to, t) ==
  [k \in DOMAIN tbl |->
     IF k[1] = from THEN NoRow
     ELSE IF k[1] = to /\ \E i \in 1..Len(copied) : copied[i].id = k[2]
     THEN LET c == copied[CHOOSE i \in 1..Len(copied) : copied[i].id = k[2]]
          IN  IF tbl[k].present
              THEN [tbl[k] EXCEPT !.data = c.row.data, !.updated_at = t]
              ELSE c.row
     ELSE tbl[k]]

\* lines 391-401: requireAuth (user "" has no valid token), then the handler
\* up to "begin"
LocalMigrate(s, user, from) ==
  /\ Takes(s)
  /\ IF user = ""
     THEN /\ resp' = Reply("LMIGRATE", 401, "{\"error\":\"no_token\"}")
          /\ UNCHANGED req
     ELSE IF from = "" \/ from = "tg:" \o user
     THEN /\ resp' = Reply("LMIGRATE", 400, "{\"error\":\"bad_params\"}")
          /\ UNCHANGED req
     ELSE /\ req' = [req EXCEPT ![s] = [Free EXCEPT !.pc = "mig_begin",
                                                    !.owner = "tg:" \o user,
                                                    !.id = from]]
          /\ resp' = NoResp
  /\ UNCHANGED <<now, recipes, local_recipes, lver, RECIPES_CACHE,
                 ver, acked, ackedAt>>
  /\ UNCHANGED users

\* lines 402-412: the database runs the insert ... select under READ
\* COMMITTED, its select seeing the rows of "from" committed by now and its
\* writes waiting for the rows of "to" another migration has locked; or the
\* statement fails (req[s].id holds "from")
DbMigrateInsert(s) ==
  /\ req[s].pc = "mig_ins"
  /\ LET copied == CopiedRows(local_recipes, req[s].id)
     IN  \/ /\ \A i \in 1..Len(copied) : ~Locked(<<req[s].owner, copied[i].id>>)
            /\ req' = [req EXCEPT ![s].pc = "mig_del", ![s].rows = copied]
         \/ req' = [req EXCEPT ![s] = [Free EXCEPT !.pc = "mig_err"]]
  /\ UNCHANGED <<now, recipes, local_recipes, lver, RECIPES_CACHE, ver, acked, ackedAt>>
  /\ resp' = NoResp
  /\ UNCHANGED users

\* lines 413-414: the database runs the delete, which sees the rows of "from"
\* committed by now, and commits; or a statement fails and the rollback of
\* line 417 leaves nothing written
DbMigrate(s) ==
  /\ req[s].pc = "mig_del"
  /\ \/ /\ \A id \in Ids : ~(Locked(<<req[s].id, id>>)
                               /\ local_recipes[<<req[s].id, id>>].present)
        /\ local_recipes' = MigrateRows(local_recipes, req[s].rows, req[s].id,
                                        req[s].owner, req[s].txStart)
        /\ lver' = lver + 1
        /\ req' = [req EXCEPT ![s].pc = "mig_ok", ![s].txStart = 0, ![s].rows = <<>>]
     \/ /\ req' = [req EXCEPT ![s] = [Free EXCEPT !.pc = "mig_err"]]
        /\ UNCHANGED <<local_recipes, lver>>
  /\ UNCHANGED <<now, recipes, RECIPES_CACHE, ver, acked, ackedAt>>
  /\ resp' = NoResp
  /\ UNCHANGED users

\* line 415: res.json({ ok: true, from, to }); lines 416-419: rollback and 500
LocalMigrateResume(s) ==
  /\ req[s].pc \in {"mig_ok", "mig_err"}
  /\ resp' = IF req[s].pc = "mig_ok"
             THEN Reply("LMIGRATE", 200,
                        "{\"ok\":true,\"from\":" \o JsonStr(req[s].id) \o ",\"to\":"
                          \o JsonStr(req[s].owner) \o "}")
             ELSE Reply("LMIGRATE", 500, "{\"error\":\"internal\"}")
  /\ RECIPES_CACHE' = LocalCache(RECIPES_CACHE)
  /\ req' = [req EXCEPT ![s] = Free]
  /\ UNCHANGED <<now, recipes, local_recipes, lver, ver, acked, ackedAt>>
  /\ UNCHANGED users

-----------------------------------------------------------------------------
(* GET /local/recipes and GET /local/recipes/:id, lines 292-315 *)

\* the rows of one owner, by id
OwnerTable(tbl, owner) == [id \in Ids |-> tbl[<<owner, id>>]]

\* lines 292-299 and 305-312: the handlers up to their await (id "" is the
\* request for the whole list)
LocalGet(s, owner, id) ==
  /\ Takes(s)
  /\ IF owner = ""
     THEN /\ resp' = Reply("LGET", 400, "{\"error\":\"owner required\"}")
          /\ UNCHANGED req
     ELSE /\ req' = [req EXCEPT ![s] = [Free EXCEPT !.pc = "lget_await", !.id = id,
                                                    !.owner = owner]]
          /\ resp' = NoResp
  /\ UNCHANGED <<now, recipes, local_recipes, lver, RECIPES_CACHE,
                 ver, acked, ackedAt>>
  /\ UNCHANGED users

\* lines 296-299: select ... where owner = $1 order by updated_at desc;
\* lines 309-312: select ... where owner = $1 and id = $2; or the query fails
DbSelectOwner(s) ==
  /\ req[s].pc = "lget_await"
  /\ LET mine == OwnerTable(local_recipes, req[s].owner)
     IN  \/ \E rows \in SelectOrdered(mine) :
              req' = [req EXCEPT ![s].pc = "lget_rows",
                                 ![s].rows = IF req[s].id = "" THEN rows
                                             ELSE SelectSeq(rows, LAMBDA r : r.id = req[s].id)]
         \/ req' = [req EXCEPT ![s] = [Free EXCEPT !.pc = "lget_err"]]
  /\ UNCHANGED <<now, recipes, local_recipes, lver, RECIPES_CACHE,
                 ver, acked, ackedAt>>
  /\ resp' = NoResp
  /\ UNCHANGED users

\* lines 300-301: Cache-Control no-store and the list; lines 313-314: 404 or
\* the document; a rejected query is not caught
LocalGetResume(s) ==
  /\ req[s].pc \in {"lget_rows", "lget_err"}
  /\ LET rows == req[s].rows
     IN  IF req[s].pc = "lget_err"
         THEN \E status \in {0, 500} :
                resp' = Reply("LGET", status,
                              IF status = 500 THEN "Internal Server Error" ELSE "")
         ELSE IF req[s].id = ""
         THEN resp' = [Reply("LGET", 200, BodyOf(rows)) EXCEPT !.cc = "no-store"]
         ELSE IF Len(rows) = 0
         THEN resp' = Reply("LGET", 404, "{\"error\":\"not found\"}")
         ELSE resp' = Reply("LGET", 200, StringifyPairs(SpreadWithId(rows[1])))
  /\ RECIPES_CACHE' = LocalCache(RECIPES_CACHE)
  /\ req' = [req EXCEPT ![s] = Free]
  /\ UNCHANGED <<now, recipes, local_recipes, lver, ver, acked, ackedAt>>
  /\ UNCHANGED users

-----------------------------------------------------------------------------
(* The bot's publish action, lines 739-768 *)

Undefined == "undefined"

Field(rec, k) == IF k \in DOMAIN rec THEN rec[k] ELSE Undefined

\* the JSON texts that are falsy in JavaScript
Truthy(v) == v \notin {Undefined, "\"\"", "0", "false", "null"}

\* Array.isArray, over the JSON texts of the model
IsArray(v) == v \in {"[]"}

\* lines 774-793; a property whose value is undefined is not serialized
normalizeForGlobal(rec, t) ==
  LET parts == Field(rec, "parts")
      flat  == ~IsArray(parts) \/ parts = "[]"
      arr(k) == IF flat /\ IsArray(Field(rec, k)) THEN Field(rec, k) ELSE "[]"
      base == [id          |-> Field(rec, "id"),
               title       |-> Field(rec, "title"),
               description |-> IF Truthy(Field(rec, "description"))
                               THEN Field(rec, "description") ELSE "\"\"",
               cover       |-> Field(rec, "cover"),
               createdAt   |-> IF Truthy(Field(rec, "createdAt"))
                               THEN Field(rec, "createdAt") ELSE ToString(t),
               favorite    |-> IF Truthy(Field(rec, "favorite")) THEN "true" ELSE "false",
               categories  |-> IF Truthy(Field(rec, "categories"))
                               THEN Field(rec, "categories") ELSE "[]",
               done        |-> IF Truthy(Field(rec, "done")) THEN "true" ELSE "false",
               parts       |-> IF IsArray(parts) THEN parts ELSE "[]",
               ingredients |-> arr("ingredients"),
               steps       |-> arr("steps")]
  IN  [k \in { x \in DOMAIN base : base[x] # Undefined } |-> base[k]]

\* lines 739-748: the action up to its first await
BotPub(s, user, id) ==
  /\ Takes(s)
  /\ req' = [req EXCEPT ![s] = [Free EXCEPT !.pc = "pub_sel", !.id = id,
                                            !.owner = "tg:" \o user]]
  /\ UNCHANGED <<now, recipes, local_recipes, lver, RECIPES_CACHE, ver, acked, ackedAt>>
  /\ resp' = NoResp
  /\ UNCHANGED users

\* lines 745-748: the database runs the select on local_recipes, or fails
DbSelectLocal(s) ==
  /\ req[s].pc = "pub_sel"
  /\ LET row == local_recipes[<<req[s].owner, req[s].id>>]
     IN  \/ req' = [req EXCEPT ![s].pc = IF row.present THEN "pub_rows" ELSE "pub_none",
                               ![s].data = row.data]
         \/ req' = [req EXCEPT ![s] = [Free EXCEPT !.pc = "pub_selerr"]]
  /\ UNCHANGED <<now, recipes, local_recipes, lver, RECIPES_CACHE, ver, acked, ackedAt>>
  /\ resp' = NoResp
  /\ UNCHANGED users

\* lines 749-755: "not found", or the upsert of the normalized document
BotPubAfterSelect(s) ==
  /\ req[s].pc \in {"pub_rows", "pub_none"}
  /\ IF req[s].pc = "pub_none"
     THEN /\ resp' = Reply("PUB", 200, "not found")
          /\ req' = [req EXCEPT ![s] = Free]
     ELSE /\ req' = [req EXCEPT ![s].pc = "pub_await",
                                ![s].data = normalizeForGlobal(req[s].data, now)]
          /\ resp' = NoResp
  /\ UNCHANGED <<now, recipes, local_recipes, lver, RECIPES_CACHE,
                 ver, acked, ackedAt>>
  /\ UNCHANGED users

\* a reset that leaves the serialized listing in place
ResetCacheKeepsBody(c) == [EmptyCache EXCEPT !.body = c.body, !.ts = c.ts]

\* line 758: RECIPES_CACHE = { body: "", etag: "", lastmod: "", ts: 0 }
ResetCache(c) == EmptyCache

\* lines 757-760: the entry is replaced by an empty one, then the callback
\* query is answered
BotPubResume(s) ==
  /\ req[s].pc = "pub_ok"
  /\ RECIPES_CACHE' = ResetCache(RECIPES_CACHE)
  /\ resp' = [Reply("PUB", 200, "published") EXCEPT !.rver = req[s].rver]
  /\ acked' = Max(acked, req[s].rver)
  /\ ackedAt' = now
  /\ req' = [req EXCEPT ![s] = Free]
  /\ UNCHANGED <<now, recipes, local_recipes, lver, ver>>
  /\ UNCHANGED users

\* lines 764-767: catch (e) { ctx.answerCbQuery("publish error") }
BotPubCatch(s) ==
  /\ req[s].pc \in {"pub_selerr", "pub_err"}
  /\ resp' = Reply("PUB", 200, "publish error")
  /\ req' = [req EXCEPT ![s] = Free]
  /\ UNCHANGED <<now, recipes, local_recipes, lver, RECIPES_CACHE,
                 ver, acked, ackedAt>>
  /\ UNCHANGED users

-----------------------------------------------------------------------------
(* POST /orders *)

\* req.body.title as JSON delivers it: its typeof and, for a string, its
\* characters
NoTitle == [type |-> "undefined", chars |-> <<>>]

Str(chars) == [type |-> "string", chars |-> chars]

\* absent; a number; strings: empty, blank, one letter between blanks, two
\* letters, two letters between blanks
Titles == { NoTitle, [type |-> "number", chars |-> <<>>],
            Str(<<>>), Str(<<" ", " ", " ">>), Str(<<" ", "x", " ">>),
            Str(<<"o", "k">>), Str(<<" ", "o", "k", " ">>) }

\* String.prototype.trim: the white space at both ends is dropped
RECURSIVE trimStart(_)
trimStart(chars) ==
  IF chars # <<>> /\ Head(chars) = " " THEN trimStart(Tail(chars)) ELSE chars

RECURSIVE trimEnd(_)
trimEnd(chars) ==
  IF chars # <<>> /\ chars[Len(chars)] = " "
  THEN trimEnd(SubSeq(chars, 1, Len(chars) - 1)) ELSE chars

trim(chars) == trimEnd(trimStart(chars))

\* a check of the length that does not trim
TitleRejectedUntrimmed(title) ==
  \/ title.type = "undefined"
  \/ title.type # "string"
  \/ Len(title.chars) < 2

\* line 469: !title || typeof title !== "string" || title.trim().length < 2
\* (a number is taken as non-zero, so !title is false for it; "" is falsy)
TitleRejected(title) ==
  \/ title.type = "undefined" \/ (title.type = "string" /\ title.chars = <<>>)
  \/ title.type # "string"
  \/ Len(trim(title.chars)) < 2

\* how the fetch of one send settles: the relay answers with a 2xx or another
\* status, fetch rejects (network), or the abort timer fires first
FetchOutcomes == {"2xx", "non2xx", "rejected", "aborted"}

\* how the reading of the answer settles: JSON that does not say ok: false;
\* JSON with ok: false; a body that is not JSON, where json() rejects and the
\* fallback resp.text() rejects too because json() has used the body; the
\* stream fails; or the abort timer fires first
BodyOutcomes == {"ok", "ok_false", "not_json", "rejected", "aborted"}

\* line 498: for (const t of [8000, 12000, 15000])
Timeouts == <<8000, 12000, 15000>>

\* part_002 lines 460-498: the checks, then the first sendWithTimeout(t)
PostOrders(s, creds, title) ==
  /\ Takes(s)
  /\ IF ~creds
     THEN /\ resp' = Reply("ORDER", 500,
                           "{\"error\":\"TELEGRAM_BOT_TOKEN / TELEGRAM_CHAT_ID not set\"}")
          /\ UNCHANGED req
     ELSE IF TitleRejected(title)
     THEN /\ resp' = Reply("ORDER", 400, "{\"error\":\"title is required\"}")
          /\ UNCHANGED req
     ELSE /\ req' = [req EXCEPT ![s] = [Free EXCEPT !.pc = "ord_send", !.attempt = 1,
                                                    !.timer = Timeouts[1],
                                                    !.creds = creds, !.title = title]]
          /\ resp' = NoResp
  /\ UNCHANGED <<now, recipes, local_recipes, lver, RECIPES_CACHE, ver, acked, ackedAt>>
  /\ UNCHANGED users

\* part_002 line 501: resp.ok && data?.ok !== false
Acknowledged(http, data) == http = "2xx" /\ data = "ok"

\* part_002 lines 503-511: the attempt is kept in lastErr; the loop goes on to
\* the next timeout, and after the last one the handler answers 502
AttemptFailed(s, err) ==
  IF req[s].attempt < Len(Timeouts)
  THEN /\ req' = [req EXCEPT ![s].pc = "ord_send", ![s].http = "-",
                             ![s].attempt = @ + 1,
                             ![s].timer = Timeouts[req[s].attempt + 1],
                             ![s].lastErr = err]
       /\ resp' = NoResp
  ELSE /\ resp' = [Reply("ORDER", 502, "{\"error\":\"telegram_failed\"}")
                    EXCEPT !.relay = err]
       /\ req' = [req EXCEPT ![s] = Free]

\* part_002 lines 479-489: the fetch of sendWithTimeout(t) settles
sendWithTimeout(s) ==
  /\ req[s].pc = "ord_send"
  /\ \E outcome \in FetchOutcomes :
       IF outcome \in {"2xx", "non2xx"}
       THEN /\ req' = [req EXCEPT ![s].pc = "ord_json", ![s].http = outcome]
            /\ resp' = NoResp
       ELSE AttemptFailed(s, [http |-> "-", data |-> outcome])
  /\ UNCHANGED <<now, recipes, local_recipes, lver, RECIPES_CACHE, ver, acked, ackedAt>>
  /\ UNCHANGED users

\* part_002 lines 490-505: resp.json() settles, the timer is cleared, and
\* resp.ok && data?.ok !== false decides
sendWithTimeoutResume(s) ==
  /\ req[s].pc = "ord_json"
  /\ \E outcome \in BodyOutcomes :
       IF outcome \in {"not_json", "rejected", "aborted"}
       THEN AttemptFailed(s, [http |-> "-", data |-> outcome])
       ELSE IF Acknowledged(req[s].http, outcome)
       THEN /\ resp' = [Reply("ORDER", 200, "{\"ok\":true}")
                         EXCEPT !.relay = [http |-> req[s].http, data |-> outcome]]
            /\ req' = [req EXCEPT ![s] = Free]
       ELSE AttemptFailed(s, [http |-> req[s].http, data |-> outcome])
  /\ UNCHANGED <<now, recipes, local_recipes, lver, RECIPES_CACHE, ver, acked, ackedAt>>
  /\ UNCHANGED users

\* server.js lines 741-764: the same checks, then one fetch with no signal
PostOrdersServer(s, creds, title) ==
  /\ Takes(s)
  /\ IF ~creds
     THEN /\ resp' = Reply("ORDER", 500,
                           "{\"error\":\"TELEGRAM_BOT_TOKEN / TELEGRAM_CHAT_ID not set\"}")
          /\ UNCHANGED req
     ELSE IF TitleRejected(title)
     THEN /\ resp' = Reply("ORDER", 400, "{\"error\":\"title is required\"}")
          /\ UNCHANGED req
     ELSE /\ req' = [req EXCEPT ![s] = [Free EXCEPT !.pc = "ord_fetch", !.attempt = 1,
                                                    !.creds = creds, !.title = title]]
          /\ resp' = NoResp
  /\ UNCHANGED <<now, recipes, local_recipes, lver, RECIPES_CACHE, ver, acked, ackedAt>>
  /\ UNCHANGED users

\* server.js lines 764-768 and 775-778: the fetch settles; no timer is armed,
\* so it is never aborted; a rejection goes to the catch block
FetchServer(s) ==
  /\ req[s].pc = "ord_fetch"
  /\ \E outcome \in FetchOutcomes \ {"aborted"} :
       IF outcome = "rejected"
       THEN /\ resp' = Reply("ORDER", 500, "{\"error\":\"internal\"}")
            /\ req' = [req EXCEPT ![s] = Free]
       ELSE /\ req' = [req EXCEPT ![s].pc = "ord_fjson", ![s].http = outcome]
            /\ resp' = NoResp
  /\ UNCHANGED <<now, recipes, local_recipes, lver, RECIPES_CACHE, ver, acked, ackedAt>>
  /\ UNCHANGED users

\* server.js lines 769-778: r.json() settles; !r.ok || j?.ok === false is
\* answered 502 at once
FetchServerResume(s) ==
  /\ req[s].pc = "ord_fjson"
  /\ \E outcome \in BodyOutcomes \ {"aborted"} :
       resp' = IF outcome \in {"not_json", "rejected"}
               THEN Reply("ORDER", 500, "{\"error\":\"internal\"}")
               ELSE IF req[s].http = "non2xx" \/ outcome = "ok_false"
               THEN Reply("ORDER", 502, "{\"error\":\"telegram_failed\"}")
               ELSE Reply("ORDER", 200, "{\"ok\":true}")
  /\ req' = [req EXCEPT ![s] = Free]
  /\ UNCHANGED <<now, recipes, local_recipes, lver, RECIPES_CACHE, ver, acked, ackedAt>>
  /\ UNCHANGED users

-----------------------------------------------------------------------------
(* Login with Telegram *)

\* the model clock counts ms from this second of the epoch, so that
\* Math.floor(Date.now() / 1000) is EpochSec + now \div 1000
EpochSec == 1000000

\* the payloads tried. hash "good" is the HMAC-SHA256 of the other fields
\* under the bot token, "bad" any other hex text, "" none; auth_date 0 is
\* an absent one, 999990 a recent one, 900000 one older than 24 h
GoodHash == "good"

LoginPayloads ==
  { [hash |-> GoodHash, auth_date |-> 999990, id |-> "7", user |-> Undefined],
    [hash |-> GoodHash, auth_date |-> 999990, id |-> Undefined, user |-> "{\"id\":8}"],
    [hash |-> GoodHash, auth_date |-> 999990, id |-> Undefined, user |-> Undefined],
    [hash |-> GoodHash, auth_date |-> 999990, id |-> Undefined, user |-> "{}"],
    [hash |-> GoodHash, auth_date |-> 999990, id |-> "7", user |-> "oops"],
    [hash |-> GoodHash, auth_date |-> 0, id |-> "7", user |-> Undefined],
    [hash |-> GoodHash, auth_date |-> 900000, id |-> "7", user |-> Undefined],
    [hash |-> "bad", auth_date |-> 999990, id |-> "7", user |-> Undefined],
    [hash |-> "", auth_date |-> 999990, id |-> "7", user |-> Undefined] }

\* a verification that does not look at auth_date
verifyIgnoresAge(payload, botToken) ==
  botToken /\ payload.hash # "" /\ payload.hash = GoodHash

\* server.js lines 265-316: verifyTelegramAuth(payload)
verifyTelegramAuth(payload, botToken) ==
  /\ botToken
  /\ payload.hash # ""
  /\ payload.hash = GoodHash
  /\ ~(payload.auth_date > 0
        /\ (EpochSec + now \div 1000) - payload.auth_date > 24 * 3600)

\* JSON.parse of the user strings tried, as the id of the result: null when
\* it throws
Null == "null"

ParsedUserId(str) ==
  CASE str = "{\"id\":8}" -> "8"
    [] str = "{}" -> Undefined
    [] OTHER -> Null

\* String(user?.id || ""), user?.id being undefined for null and for {}
IdText(id) == IF id \in {Undefined, Null} THEN "" ELSE id

\* String(data.id) of POST /auth/telegram
String(v) == v

\* server.js lines 372-390 (GET) and 439-456 (POST): the user the callback
\* takes from the payload. GET parses q.user when there is one; POST parses
\* body.user and falls back to the top-level fields when the parse gives
\* null. Number(undefined) is NaN, which is falsy
CallbackUserId(route, p) ==
  IF p.user # Undefined /\ (route = "GET callback" \/ ParsedUserId(p.user) # Null)
  THEN IdText(ParsedUserId(p.user))
  ELSE IdText(p.id)

\* server.js lines 60-63: the claims of the token signJwtForTelegram signs
signJwtForTelegram(tg_id) == [sub |-> "tg:" \o tg_id, tg_id |-> tg_id]

\* the login endpoints: POST /auth/telegram of server.js and of part_002, and
\* the two callbacks of server.js
LoginRoutes == {"POST telegram", "POST telegram part_002", "GET callback", "POST callback"}

\* the status a failed verification is answered with
BadSignature(route) ==
  IF route \in {"POST telegram", "POST telegram part_002"}
  THEN Reply("LOGIN", 403, "{\"error\":\"bad_signature\"}")
  ELSE IF route = "GET callback" THEN Reply("LOGIN", 401, "invalid_signature")
  ELSE Reply("LOGIN", 401, "{\"error\":\"invalid_signature\"}")

\* server.js lines 319-333, 358-391, 419-459 and part_002 lines 584-596: the
\* handler up to the await of the upsert
Login(s, route, p, botToken) ==
  /\ Takes(s)
  /\ LET tg_id == IF route \in {"POST telegram", "POST telegram part_002"}
                  THEN String(p.id) ELSE CallbackUserId(route, p)
     IN  IF route = "POST callback" /\ ~botToken
         THEN /\ resp' = Reply("LOGIN", 500, "{\"error\":\"bot_token_missing\"}")
              /\ UNCHANGED req
         ELSE IF route = "POST callback" /\ (p.hash = "" \/ p.auth_date = 0)
         THEN /\ resp' = Reply("LOGIN", 400, "{\"error\":\"bad_payload\"}")
              /\ UNCHANGED req
         ELSE IF ~verifyTelegramAuth(p, botToken)
         THEN /\ resp' = BadSignature(route)
              /\ UNCHANGED req
         ELSE IF tg_id = ""
         THEN /\ resp' = Reply("LOGIN", 400, "no_user")
              /\ UNCHANGED req
         ELSE /\ req' = [req EXCEPT ![s] = [Free EXCEPT !.pc = "login_await",
                                                        !.route = route, !.id = tg_id,
                                                        !.payload = p, !.creds = botToken]]
              /\ resp' = NoResp
  /\ UNCHANGED <<now, recipes, local_recipes, lver, users, RECIPES_CACHE,
                 ver, acked, ackedAt>>

\* server.js lines 65-83 and part_002 lines 597-607: the insert into users
\* ... on conflict do update, which leaves bot_enabled of an existing row
\* alone and gives a new row the default true; or the statement fails
DbUpsertUser(s) ==
  /\ req[s].pc = "login_await"
  /\ \/ /\ users' = [users EXCEPT ![req[s].id] =
                        IF @.present THEN @ ELSE [@ EXCEPT !.present = TRUE, !.bot_enabled = TRUE]]
        /\ req' = [req EXCEPT ![s].pc = "login_ok"]
     \/ /\ req' = [req EXCEPT ![s].pc = "login_err"]
        /\ UNCHANGED users
  /\ resp' = NoResp
  /\ UNCHANGED <<now, recipes, local_recipes, lver, RECIPES_CACHE, ver, acked, ackedAt>>

\* server.js lines 335-354, 401-415, 467-494 and part_002 lines 609-622: the
\* token is signed, the cookie set (not in part_002) and the answer sent; or
\* the catch block answers 500
LoginResume(s) ==
  /\ req[s].pc \in {"login_ok", "login_err"}
  /\ LET token == signJwtForTelegram(req[s].id)
         route == req[s].route
     IN  resp' =
           IF req[s].pc = "login_err"
           THEN Reply("LOGIN", 500, IF route = "GET callback" THEN "internal"
                                    ELSE "{\"error\":\"internal\"}")
           ELSE [Reply("LOGIN", IF route = "GET callback" THEN 302 ELSE 200,
                       IF route = "GET callback" THEN ""
                       ELSE "{\"ok\":true,\"ownerId\":\"tg:" \o token.tg_id \o "\"}")
                   EXCEPT !.jwt = IF route = "GET callback" THEN "" ELSE token.sub,
                          !.cookie = IF route = "POST telegram part_002" THEN ""
                                     ELSE token.sub]
  /\ req' = [req EXCEPT ![s] = Free]
  /\ UNCHANGED <<now, recipes, local_recipes, lver, users, RECIPES_CACHE,
                 ver, acked, ackedAt>>

-----------------------------------------------------------------------------
(* The bot's access switch: POST /auth/telegram/link and /unlink, and the
   middleware of the bot, server.js *)

\* lines 224-237 and 497-499, 507-509: requireAuth (user "" sends no token),
\* then the handler up to its await
Link(s, user, enabled) ==
  /\ Takes(s)
  /\ IF user = ""
     THEN /\ resp' = Reply("LINK", 401, "{\"error\":\"no_token\"}")
          /\ UNCHANGED req
     ELSE /\ req' = [req EXCEPT ![s] = [Free EXCEPT
                        !.pc = IF enabled THEN "link_await" ELSE "unlink_await",
                        !.id = user]]
          /\ resp' = NoResp
  /\ UNCHANGED <<now, recipes, local_recipes, lver, users, RECIPES_CACHE,
                 ver, acked, ackedAt>>

\* lines 499 and 509: update users set bot_enabled = ... where tg_id = $1,
\* which changes no row when the user has none; or the statement fails
DbSetBotEnabled(s) ==
  /\ req[s].pc \in {"link_await", "unlink_await"}
  /\ LET enabled == req[s].pc = "link_await"
         row == users[req[s].id]
     IN  \/ /\ users' = [users EXCEPT ![req[s].id] =
                            [row EXCEPT !.bot_enabled = IF row.present THEN enabled ELSE @,
                                        !.unlinkAcked = @ /\ ~enabled]]
            /\ req' = [req EXCEPT ![s].pc = IF enabled THEN "link_ok" ELSE "unlink_ok"]
         \/ /\ req' = [req EXCEPT ![s].pc = "link_err"]
            /\ UNCHANGED users
  /\ resp' = NoResp
  /\ UNCHANGED <<now, recipes, local_recipes, lver, RECIPES_CACHE, ver, acked, ackedAt>>

\* lines 500-504 and 510-514: res.json({ ok: true }), or the catch block's 500
LinkResume(s) ==
  /\ req[s].pc \in {"link_ok", "unlink_ok", "link_err"}
  /\ resp' = IF req[s].pc = "link_err"
             THEN Reply("LINK", 500, "{\"error\":\"internal\"}")
             ELSE Reply("LINK", 200, "{\"ok\":true}")
  /\ users' = IF req[s].pc = "unlink_ok"
              THEN [users EXCEPT ![req[s].id].unlinkAcked = TRUE]
              ELSE users
  /\ req' = [req EXCEPT ![s] = Free]
  /\ UNCHANGED <<now, recipes, local_recipes, lver, RECIPES_CACHE, ver, acked, ackedAt>>

\* the tg_id of an owner tg:<id>
TgId(owner) == CHOOSE u \in UserIds : "tg:" \o u = owner

\* lines 813-819: the middleware up to its await, for the callback query
\* PUB:<id> of the sender "from"; an update without sender ("") is dropped
BotUpdate(s, from, id) ==
  /\ Takes(s)
  /\ IF from = ""
     THEN /\ resp' = Reply("BOT", 200, "")
          /\ UNCHANGED req
     ELSE /\ req' = [req EXCEPT ![s] = [Free EXCEPT !.pc = "use_sel", !.id = id,
                                                    !.owner = "tg:" \o from]]
          /\ resp' = NoResp
  /\ UNCHANGED <<now, recipes, local_recipes, lver, users, RECIPES_CACHE,
                 ver, acked, ackedAt>>

\* lines 816-820: select bot_enabled from users where tg_id = $1, and
\* allowed = rows.length ? rows[0].bot_enabled !== false : true; or the query
\* fails
DbSelectBotEnabled(s) ==
  /\ req[s].pc = "use_sel"
  /\ LET row == users[TgId(req[s].owner)]
         allowed == IF row.present THEN row.bot_enabled # FALSE ELSE TRUE
     IN  \/ req' = [req EXCEPT ![s].pc = IF allowed THEN "use_ok" ELSE "use_no"]
         \/ req' = [req EXCEPT ![s].pc = "use_err"]
  /\ resp' = NoResp
  /\ UNCHANGED <<now, recipes, local_recipes, lver, users, RECIPES_CACHE,
                 ver, acked, ackedAt>>

\* lines 821-834: the reply to a sender who is not allowed, or after a failed
\* check; else next(), which runs the action PUB up to its first await
\* (lines 1018-1027)
BotNext(s) ==
  /\ req[s].pc \in {"use_ok", "use_no", "use_err"}
  /\ IF req[s].pc = "use_ok"
     THEN /\ req' = [req EXCEPT ![s].pc = "pub_sel"]
          /\ resp' = NoResp
     ELSE /\ resp' = Reply("BOT", 200, IF req[s].pc = "use_no" THEN "unlinked"
                                       ELSE "access error")
          /\ req' = [req EXCEPT ![s] = Free]
  /\ UNCHANGED <<now, recipes, local_recipes, lver, users, RECIPES_CACHE,
                 ver, acked, ackedAt>>

-----------------------------------------------------------------------------
(* The clock *)

Tick ==
  /\ now + TickMs <= (MaxTicks + 1) * TickMs
  /\ now' = now + TickMs
  /\ UNCHANGED <<recipes, local_recipes, lver, RECIPES_CACHE, req, ver, acked, ackedAt>>
  /\ resp' = NoResp
  /\ UNCHANGED users

\* the clock advancing inside the freshness window
Elapse ==
  /\ now + StepMs <= TickMs + MaxSteps * StepMs
  /\ now' = now + StepMs
  /\ UNCHANGED <<recipes, local_recipes, lver, RECIPES_CACHE, req, ver, acked, ackedAt>>
  /\ resp' = NoResp
  /\ UNCHANGED users

-----------------------------------------------------------------------------
(* The specification *)

\* the table local_recipes when the process starts: it holds one document of
\* the bot's user, stored by an earlier run of PUT /local/recipes/a
StoredBefore(data) ==
  [present |-> TRUE, data |-> data, created_at |-> TickMs, updated_at |-> TickMs]

LocalTable ==
  [k \in Owners \X Ids |->
     IF k = <<"tg:7", "a">> THEN StoredBefore(WithId([title |-> JsonStr("soup")], "a"))
     ELSE NoRow]

Init ==
  /\ now = TickMs
  /\ recipes = [id \in Ids |-> NoRow]
  /\ local_recipes = LocalTable
  /\ RECIPES_CACHE = EmptyCache
  /\ req = [s \in Slots |-> Free]
  /\ resp = NoResp
  /\ ver = 0
  /\ acked = 0
  /\ ackedAt = 0
  /\ lver = 0
  /\ users = [u \in UserIds |-> NoUser]

Next ==
  \/ Tick
  \/ \E s \in Slots : GetRecipes(s)
  \/ \E s \in Slots : DbSelectRecipes(s)
  \/ \E s \in Slots : GetRecipesResume(s)
  \/ \E s \in Slots : GetRecipesCatch(s)
  \/ \E s \in Slots, id \in Ids, recipe \in RecipeObjects \cup NotObjects :
       (RecipeRejected(recipe) \/ CanWrite) /\ PutRecipe(s, id, recipe)
  \/ \E s \in Slots : DbUpsertRecipe(s)
  \/ \E s \in Slots : PutRecipeResume(s)
  \/ \E s \in Slots, id \in Ids : CanWrite /\ DeleteRecipe(s, id)
  \/ \E s \in Slots : DbDeleteRecipe(s)
  \/ \E s \in Slots : DeleteRecipeResume(s)
  \/ \E s \in Slots : WriteRejected(s)
  \/ \E s \in Slots, user \in BotUsers, id \in Ids : CanWrite /\ BotPub(s, user, id)
  \/ \E s \in Slots : DbSelectLocal(s)
  \/ \E s \in Slots : BotPubAfterSelect(s)
  \/ \E s \in Slots : BotPubResume(s)
  \/ \E s \in Slots : BotPubCatch(s)

Spec == Init /\ [][Next]_vars

\* GET /recipes alone, while the clock moves through the freshness window
NextWindow ==
  \/ Elapse
  \/ \E s \in Slots : GetRecipes(s)
  \/ \E s \in Slots : DbSelectRecipes(s)
  \/ \E s \in Slots : GetRecipesResume(s)
  \/ \E s \in Slots : GetRecipesCatch(s)

SpecWindow == Init /\ [][NextWindow]_vars

\* POST /orders, as written in part_002 and as written in server.js
NextOrders ==
  \/ \E s \in Slots, creds \in BOOLEAN, title \in Titles : PostOrders(s, creds, title)
  \/ \E s \in Slots : sendWithTimeout(s)
  \/ \E s \in Slots : sendWithTimeoutResume(s)
  \/ \E s \in Slots, creds \in BOOLEAN, title \in Titles : PostOrdersServer(s, creds, title)
  \/ \E s \in Slots : FetchServer(s)
  \/ \E s \in Slots : FetchServerResume(s)

SpecOrders == Init /\ [][NextOrders]_vars

\* the login endpoints
NextAuth ==
  \/ \E s \in Slots, route \in LoginRoutes, p \in LoginPayloads, botToken \in BOOLEAN :
       Login(s, route, p, botToken)
  \/ \E s \in Slots : DbUpsertUser(s)
  \/ \E s \in Slots : LoginResume(s)

SpecAuth == Init /\ [][NextAuth]_vars

\* POST /orders as written in part_002 (and part_001 lines 480-536)
NextOrdersLoop ==
  \/ \E s \in Slots, creds \in BOOLEAN, title \in Titles : PostOrders(s, creds, title)
  \/ \E s \in Slots : sendWithTimeout(s)
  \/ \E s \in Slots : sendWithTimeoutResume(s)

SpecOrdersLoop == Init /\ [][NextOrdersLoop]_vars

\* the process starts on a table recipes that holds one document, stored by
\* an earlier run of PUT /recipes/a with a body that carries an id of its own
InitStored ==
  /\ now = TickMs
  /\ recipes = [id \in Ids |->
                  IF id = "a"
                  THEN StoredBefore([id |-> JsonStr("zz"), title |-> JsonStr("cake")])
                  ELSE NoRow]
  /\ local_recipes = LocalTable
  /\ RECIPES_CACHE = EmptyCache
  /\ req = [s \in Slots |-> Free]
  /\ resp = NoResp
  /\ ver = 0
  /\ acked = 0
  /\ ackedAt = 0
  /\ lver = 0
  /\ users = [u \in UserIds |-> NoUser]

\* GET /recipes and PUT /recipes/:id on that table
NextStored ==
  \/ Tick
  \/ \E s \in Slots : GetRecipes(s)
  \/ \E s \in Slots : DbSelectRecipes(s)
  \/ \E s \in Slots : GetRecipesResume(s)
  \/ \E s \in Slots : GetRecipesCatch(s)
  \/ \E s \in Slots, id \in Ids, recipe \in RecipeObjects \cup NotObjects :
       (RecipeRejected(recipe) \/ CanWrite) /\ PutRecipe(s, id, recipe)
  \/ \E s \in Slots : DbUpsertRecipe(s)
  \/ \E s \in Slots : PutRecipeResume(s)
  \/ \E s \in Slots : WriteRejected(s)

SpecStored == InitStored /\ [][NextStored]_vars

\* the handlers that write the table recipes, alone, with more writes
NextWrites ==
  \/ Tick
  \/ \E s \in Slots, id \in Ids, recipe \in RecipeObjects \cup NotObjects :
       (RecipeRejected(recipe) \/ CanWriteAgain) /\ PutRecipe(s, id, recipe)
  \/ \E s \in Slots : DbUpsertRecipe(s)
  \/ \E s \in Slots : PutRecipeResume(s)
  \/ \E s \in Slots, id \in Ids : CanWriteAgain /\ DeleteRecipe(s, id)
  \/ \E s \in Slots : DbDeleteRecipe(s)
  \/ \E s \in Slots : DeleteRecipeResume(s)
  \/ \E s \in Slots : WriteRejected(s)

SpecWrites == Init /\ [][NextWrites]_vars

\* the inputs of the /local/recipes handlers
OwnerHeaders == {"", "tg:7", "guest"}
LocalIds == {"b"}
LocalRecipes == { [title |-> JsonStr("soup")] }
BulkArrays == { <<>>, <<WithId([title |-> JsonStr("soup")], "b")>>,
                <<[title |-> JsonStr("soup")]>> }
TokenUsers == {"", "7"}

\* the /local/recipes handlers, beside GET /recipes, at one instant of the
\* clock (none of the /local/recipes handlers reads it)
NextLocal ==
  \/ \E s \in Slots : GetRecipes(s)
  \/ \E s \in Slots : DbSelectRecipes(s)
  \/ \E s \in Slots : GetRecipesResume(s)
  \/ \E s \in Slots : GetRecipesCatch(s)
  \/ \E s \in Slots, owner \in OwnerHeaders, id \in LocalIds,
        recipe \in LocalRecipes \cup NotObjects :
       (owner = "" \/ RecipeRejected(recipe) \/ CanWriteLocal)
         /\ LocalPutRecipe(s, owner, id, recipe)
  \/ \E s \in Slots : DbUpsertLocal(s)
  \/ \E s \in Slots : LocalPutResume(s)
  \/ \E s \in Slots, owner \in OwnerHeaders, id \in LocalIds :
       (owner = "" \/ CanWriteLocal) /\ LocalDeleteRecipe(s, owner, id)
  \/ \E s \in Slots : DbDeleteLocal(s)
  \/ \E s \in Slots : LocalDeleteResume(s)
  \/ \E s \in Slots, owner \in OwnerHeaders, arr \in BulkArrays :
       (owner = "" \/ Len(arr) = 0 \/ CanWriteLocal) /\ LocalBulk(s, owner, arr)
  \/ \E s \in Slots : DbBegin(s)
  \/ \E s \in Slots : DbBulkUpsert(s)
  \/ \E s \in Slots : LocalBulkResume(s)
  \/ \E s \in Slots, user \in TokenUsers, from \in OwnerHeaders :
       (user = "" \/ from \in {"", "tg:" \o user} \/ CanWriteLocal)
         /\ LocalMigrate(s, user, from)
  \/ \E s \in Slots : DbMigrateInsert(s)
  \/ \E s \in Slots : DbMigrate(s)
  \/ \E s \in Slots : LocalMigrateResume(s)
  \/ \E s \in Slots, owner \in OwnerHeaders, id \in LocalIds \cup {""} :
       LocalGet(s, owner, id)
  \/ \E s \in Slots : DbSelectOwner(s)
  \/ \E s \in Slots : LocalGetResume(s)

SpecLocal == Init /\ [][NextLocal]_vars

\* the handlers that write the table local_recipes, alone, as the clock advances
NextLocalWrites ==
  \/ Tick
  \/ \E s \in Slots, owner \in OwnerHeaders, id \in LocalIds,
        recipe \in LocalRecipes \cup NotObjects :
       (owner = "" \/ RecipeRejected(recipe) \/ CanWriteLocal)
         /\ LocalPutRecipe(s, owner, id, recipe)
  \/ \E s \in Slots : DbUpsertLocal(s)
  \/ \E s \in Slots : LocalPutResume(s)
  \/ \E s \in Slots, owner \in OwnerHeaders, id \in LocalIds :
       (owner = "" \/ CanWriteLocal) /\ LocalDeleteRecipe(s, owner, id)
  \/ \E s \in Slots : DbDeleteLocal(s)
  \/ \E s \in Slots : LocalDeleteResume(s)
  \/ \E s \in Slots, owner \in OwnerHeaders, arr \in BulkArrays :
       (owner = "" \/ Len(arr) = 0 \/ CanWriteLocal) /\ LocalBulk(s, owner, arr)
  \/ \E s \in Slots : DbBegin(s)
  \/ \E s \in Slots : DbBulkUpsert(s)
  \/ \E s \in Slots : LocalBulkResume(s)
  \/ \E s \in Slots, user \in TokenUsers, from \in OwnerHeaders :
       (user = "" \/ from \in {"", "tg:" \o user} \/ CanWriteLocal)
         /\ LocalMigrate(s, user, from)
  \/ \E s \in Slots : DbMigrateInsert(s)
  \/ \E s \in Slots : DbMigrate(s)
  \/ \E s \in Slots : LocalMigrateResume(s)

SpecLocalWrites == Init /\ [][NextLocalWrites]_vars

\* the senders of bot updates: none, and user 7, who has no users row until
\* the login
Senders == {"", "7"}

\* a login of user 7, the access switch of the users who hold a token (""
\* holds none; who holds one has logged in and has a users row), and the
\* bot's PUB action behind its middleware
NextBot ==
  \/ \E s \in Slots :
       Login(s, "POST telegram",
             [hash |-> GoodHash, auth_date |-> 999990, id |-> "7", user |-> Undefined], TRUE)
  \/ \E s \in Slots : DbUpsertUser(s)
  \/ \E s \in Slots : LoginResume(s)
  \/ \E s \in Slots, user \in TokenUsers, enabled \in BOOLEAN :
       (IF user = "" THEN TRUE ELSE users[user].present) /\ Link(s, user, enabled)
  \/ \E s \in Slots : DbSetBotEnabled(s)
  \/ \E s \in Slots : LinkResume(s)
  \/ \E s \in Slots, from \in Senders, id \in Ids :
       (from = "" \/ CanWrite) /\ BotUpdate(s, from, id)
  \/ \E s \in Slots : DbSelectBotEnabled(s)
  \/ \E s \in Slots : BotNext(s)
  \/ \E s \in Slots : DbSelectLocal(s)
  \/ \E s \in Slots : BotPubAfterSelect(s)
  \/ \E s \in Slots : DbUpsertRecipe(s)
  \/ \E s \in Slots : BotPubResume(s)
  \/ \E s \in Slots : BotPubCatch(s)

SpecBot == Init /\ [][NextBot]_vars

-----------------------------------------------------------------------------
(* Properties *)

\* the entry holds exactly what a recomputation from rows at time t stores
HoldsSnapshot(c, rows, t) ==
  /\ c.body = BodyOf(rows)
  /\ c.etag = ETagOf(rows, t)
  /\ c.lastmod = LastModOf(rows, t)
  /\ c.ts = t

IsEmpty(c) == c.body = "" /\ c.etag = "" /\ c.lastmod = "" /\ c.ts = 0

\* body is what a recomputation over the store as it is now would send
BodyIsCurrent(body) == \E r \in SelectOrdered(recipes) : body = BodyOf(r)

\* inm is the token a recomputation over the store as it is now would produce
TokenIsCurrent(inm) == \E r \in SelectOrdered(recipes) : inm = ETagOf(r, now)

\* the step is the continuation of slot s after its select returned rows
MissStep(s) == req[s].pc = "get_rows" /\ req'[s].pc = "free"

\* the step is a GET /recipes answered without suspending
SyncGetStep == resp'.kind = "GET" /\ req' = req

\* the step sends the response of a successful PUT or DELETE /recipes/:id
WriteAnswered ==
  \/ resp'.kind = "PUT" /\ resp'.status = 200
  \/ resp'.kind = "DELETE" /\ resp'.status = 204

\* C1: a GET /recipes that starts after the response of a successful write was
\* sent, less than 15 s after it, is not answered with a body computed from a
\* snapshot taken before that write (stated for the GETs answered without
\* suspending, whose start and answer are one moment; a body that equals the
\* current listing does not count as stale).
C1_ReadAfterWriteNotStale ==
  (/\ resp.kind = "GET" /\ resp.status = 200 /\ resp.hit
   /\ acked > 0
   /\ now - ackedAt < CACHE_TTL_MS)
  => (resp.rver >= acked \/ BodyIsCurrent(resp.body))

\* C2: in PUT and DELETE /recipes/:id the store write is committed before the
\* step that invalidates the entry and sends the response; right after that
\* step the entry is empty (body, etag, lastmod "" and ts 0); and a GET
\* /recipes that finds the entry empty is not answered from it but goes to
\* the store.
C2_InvalidateThenRespond ==
  [][/\ WriteAnswered =>
          /\ \E s \in Slots : /\ req[s].pc \in {"put_ok", "del_ok"}
                              /\ req'[s].pc = "free"
                              /\ req[s].rver <= ver
          /\ IsEmpty(RECIPES_CACHE')
     /\ IsEmpty(RECIPES_CACHE) =>
          /\ ~SyncGetStep
          /\ \A s \in Slots : (Takes(s) /\ req'[s].pc \in {"get_await", "get_rows"})
                                 => req'[s].pc = "get_await"]_vars

C2_Witness ==
  /\ resp.kind = "PUT" /\ resp.status = 200
  /\ IsEmpty(RECIPES_CACHE)
  /\ \E id \in Ids : recipes[id].present

\* C3: a GET /recipes issued more than 15 s after the last write, with no
\* write in between, returns the listing of the store as the last write left
\* it (stated for the GETs answered without suspending, when every write was
\* committed and answered more than 15 s ago and none is in flight).
C3_LateReadReflectsLastWrite ==
  (/\ resp.kind = "GET" /\ resp.status = 200 /\ resp.hit
   /\ ver > 0 /\ acked = ver /\ WritesInFlight = 0
   /\ now - ackedAt > CACHE_TTL_MS)
  => BodyIsCurrent(resp.body)

\* C4: a GET /recipes whose If-None-Match is the token a recomputation over
\* the current store produces is answered 304, whatever the state of the
\* entry (stated for requests that overlap no write: every write is committed
\* and answered, and a recomputed answer used a snapshot that is still current).
C4_CurrentTokenNotModified ==
  (/\ resp.kind = "GET"
   /\ TokenIsCurrent(resp.inm)
   /\ acked = ver /\ WritesInFlight = 0
   /\ (resp.hit \/ resp.rver = ver))
  => (resp.status = 304 /\ resp.body = "")

\* the ETag a recomputation answered with: the response's, or on the
\* handler's own 304 the If-None-Match it was equal to
ComputedETag(r) == IF r.status = 304 /\ r.etag = "" THEN r.inm ELSE r.etag

\* C5: two cache-miss computations over the same unchanged store contents
\* produce the same ETag: a recomputation over the snapshot the entry was
\* computed from, with no write in between, produces the entry's etag.
C5_SameStoreSameETag ==
  [][\A s \in Slots :
       (/\ MissStep(s)
        /\ RECIPES_CACHE.body # ""
        /\ RECIPES_CACHE.src.rows = req[s].rows
        /\ RECIPES_CACHE.src.ver = req[s].rver
        /\ ver = req[s].rver)
       => ComputedETag(resp') = RECIPES_CACHE.etag]_vars

\* C6: in every reachable state the entry is entirely empty, or its body,
\* etag and lastmod come from one and the same snapshot; and a 200 answer
\* carries the body, ETag and Last-Modified of one snapshot.
C6_EntryFromOneSnapshot ==
  /\ RECIPES_CACHE.body = "" => IsEmpty(RECIPES_CACHE)
  /\ RECIPES_CACHE.body # "" =>
       HoldsSnapshot(RECIPES_CACHE, RECIPES_CACHE.src.rows, RECIPES_CACHE.src.at)
  /\ (resp.kind = "GET" /\ resp.status = 200) =>
       /\ resp.body = RECIPES_CACHE.body
       /\ resp.etag = RECIPES_CACHE.etag
       /\ resp.lastmod = RECIPES_CACHE.lastmod

\* the entry was filled by one of two recomputations that raced, after a
\* write was committed between their selects
C6_Witness ==
  /\ RECIPES_CACHE.body # ""
  /\ RECIPES_CACHE.src.ver < ver
  /\ \E s \in Slots : req[s].pc = "get_rows" /\ req[s].rver = ver

\* C7: when the entry is empty or stale and If-None-Match equals the freshly
\* computed token, the answer is 304 with no body and the entry has been
\* replaced by the fresh snapshot (ts = now).
C7_NotModifiedRefreshesEntry ==
  [][\A s \in Slots :
       (MissStep(s) /\ resp'.inm = ETagOf(req[s].rows, now))
       => /\ resp'.status = 304 /\ resp'.body = ""
          /\ HoldsSnapshot(RECIPES_CACHE', req[s].rows, now)]_vars

\* C8: when the entry is empty or stale and If-None-Match is absent or not the
\* freshly computed token, the whole entry is replaced by the fresh {body,
\* etag, lastmod, ts = now} and the answer is 200 with that body, ETag,
\* Last-Modified and the fixed Cache-Control.
C8_MissStoresAndServes ==
  [][\A s \in Slots :
       (MissStep(s) /\ resp'.inm # ETagOf(req[s].rows, now))
       => /\ HoldsSnapshot(RECIPES_CACHE', req[s].rows, now)
          /\ resp'.kind = "GET" /\ resp'.status = 200
          /\ resp'.body = BodyOf(req[s].rows)
          /\ resp'.etag = ETagOf(req[s].rows, now)
          /\ resp'.lastmod = LastModOf(req[s].rows, now)
          /\ resp'.cc = "public, max-age=30, stale-while-revalidate=300"]_vars

\* a stale entry was replaced by the listing of a store that holds a document
C8_Witness ==
  /\ resp.kind = "GET" /\ resp.status = 200 /\ ~resp.hit
  /\ now > TickMs
  /\ RECIPES_CACHE.ts = now
  /\ Len(RECIPES_CACHE.src.rows) > 0
  /\ resp.body = RECIPES_CACHE.body

\* C9: when the entry is non-empty and was populated less than 15 s ago, a
\* GET /recipes is answered without a store query: 304 with no body if
\* If-None-Match equals the cached etag, otherwise 200 with the cached body,
\* the cached etag and lastmod and the fixed Cache-Control.
C9_FreshEntryServed ==
  [][(RECIPES_CACHE.body # "" /\ now - RECIPES_CACHE.ts < 15000) =>
       /\ \A s \in Slots : ~(req[s].pc = "free" /\ req'[s].pc = "get_await")
       /\ SyncGetStep =>
            /\ UNCHANGED <<RECIPES_CACHE, recipes>>
            /\ IF resp'.inm = RECIPES_CACHE.etag
               THEN resp'.status = 304 /\ resp'.body = ""
               ELSE /\ resp'.status = 200
                    /\ resp'.body = RECIPES_CACHE.body
                    /\ resp'.etag = RECIPES_CACHE.etag
                    /\ resp'.lastmod = RECIPES_CACHE.lastmod
                    /\ resp'.cc = "public, max-age=30, stale-while-revalidate=300"]_vars

\* a 200 answer from the entry, which lists a document
C9_Witness ==
  /\ resp.kind = "GET" /\ resp.status = 200 /\ resp.hit
  /\ Len(RECIPES_CACHE.src.rows) > 0
  /\ resp.body = RECIPES_CACHE.body

\* C10: if the select of a cache-miss fails, no step of that request changes
\* the entry and the caller receives 500 {"error":"internal"}.
C10_FailedQueryLeavesEntry ==
  [][\A s \in Slots :
       /\ (req[s].pc = "free" /\ req'[s].pc = "get_await")
            => RECIPES_CACHE' = RECIPES_CACHE
       /\ (req[s].pc = "get_await" /\ req'[s].pc = "get_err")
            => RECIPES_CACHE' = RECIPES_CACHE
       /\ (req[s].pc = "get_err" /\ req'[s].pc = "free")
            => /\ RECIPES_CACHE' = RECIPES_CACHE
               /\ resp'.kind = "GET" /\ resp'.status = 500
               /\ resp'.body = "{\"error\":\"internal\"}"]_vars

\* a failed request answered while the entry holds earlier contents
C10_Witness ==
  /\ resp.kind = "GET" /\ resp.status = 500
  /\ RECIPES_CACHE.body # ""

\* C11: if the store write of PUT or DELETE /recipes/:id fails, the writer
\* receives an internal-error (500) response and no step of the request
\* changes the cache entry.
C11_WriteFailureSurfaced ==
  [][\A s \in Slots :
       /\ (req[s].pc \in {"put_await", "del_await"} /\ req'[s].pc \in {"put_err", "del_err"})
            => RECIPES_CACHE' = RECIPES_CACHE
       /\ (req[s].pc \in {"put_err", "del_err"} /\ req'[s].pc = "free")
            => /\ RECIPES_CACHE' = RECIPES_CACHE
               /\ resp'.kind \in {"PUT", "DELETE"} /\ resp'.status = 500]_vars

\* the listings a select over the table can return, serialized
Listings(tbl) == { BodyOf(r) : r \in SelectOrdered(tbl) }

\* the token of a recomputation over the table at time t
Tokens(tbl, t) == { ETagOf(r, t) : r \in SelectOrdered(tbl) }

\* C12: equal listing tokens imply equal listing bodies; equivalently, every
\* write that changes the listing changes the token (row count combined with
\* the newest updated_at in ms).
C12_WriteChangesToken ==
  [][Listings(recipes') # Listings(recipes)
       => Tokens(recipes', now') # Tokens(recipes, now)]_vars

\* C20: after a successful PUT /recipes/:id (insert or update), a listing
\* recomputed from the store contains exactly one element with that id,
\* carrying the new body, and that element is first.
C20_PutIsFirstInListing ==
  [][\A s \in Slots :
       (req[s].pc = "put_await" /\ req'[s].pc = "put_ok")
       => \A rows \in SelectOrdered(recipes') :
            /\ Cardinality({ i \in 1..Len(rows) : rows[i].id = req[s].id }) = 1
            /\ rows[1].id = req[s].id
            /\ rows[1].data = req[s].data]_vars

\* the positions of the /local/recipes handlers, and their responses
LocalPcs == LocalWritePcs \cup {"lget_await", "lget_rows", "lget_err"}

LocalKinds == {"LPUT", "LDELETE", "LBULK", "LMIGRATE", "LGET"}

\* the step is taken by a /local/recipes handler
LocalStep ==
  \/ resp'.kind \in LocalKinds
  \/ \E s \in Slots : /\ req'[s] # req[s]
                      /\ (req[s].pc \in LocalPcs \/ req'[s].pc \in LocalPcs)

\* C13: no step of PUT, DELETE, bulk or migrate on /local/recipes changes the
\* listing cache entry, and the reads of /local/recipes neither change it nor
\* answer from it: they send the rows their own select returned.
C13_LocalLeavesCache ==
  [][LocalStep =>
       /\ RECIPES_CACHE' = RECIPES_CACHE
       /\ \A s \in Slots :
            (req[s].pc = "lget_rows" /\ req'[s].pc = "free") =>
              IF req[s].id = ""
              THEN resp'.body = BodyOf(req[s].rows) /\ resp'.cc = "no-store"
              ELSE \/ resp'.status = 404
                   \/ resp'.body = StringifyPairs(SpreadWithId(req[s].rows[1]))]_vars

\* a write to local_recipes was answered while the entry holds a listing
C13_Witness ==
  /\ resp.kind \in {"LPUT", "LDELETE", "LBULK", "LMIGRATE"}
  /\ resp.status \in {200, 204}
  /\ lver > 0
  /\ RECIPES_CACHE.body # ""

\* C15: in both tables every stored document has updated_at >= created_at,
\* whatever PUT, bulk, migrate and publish operations ran.
C15_UpdatedNotBeforeCreated ==
  /\ \A id \in DOMAIN recipes :
       recipes[id].present => recipes[id].updated_at >= recipes[id].created_at
  /\ \A k \in DOMAIN local_recipes :
       local_recipes[k].present
         => local_recipes[k].updated_at >= local_recipes[k].created_at

\* C14: a GET /recipes whose If-None-Match is absent or is any string other
\* than the token it is compared with (the entry's etag on a hit, the freshly
\* computed one on a miss), the weak form of that token included, is answered
\* 200 with the full body, never 304 and never an error.
C14_UnmatchedHeaderFullBody ==
  [][/\ (SyncGetStep /\ resp'.inm # RECIPES_CACHE.etag)
          => (resp'.status = 200 /\ resp'.body = RECIPES_CACHE.body)
     /\ \A s \in Slots :
          (MissStep(s) /\ resp'.inm # ETagOf(req[s].rows, now))
          => (resp'.status = 200 /\ resp'.body = BodyOf(req[s].rows))]_vars

\* the bot acknowledges a publish
PubAcked == resp'.kind = "PUB" /\ resp'.body = "published"

C18_HitLeavesEntry ==
  [][SyncGetStep =>
       /\ RECIPES_CACHE' = RECIPES_CACHE
       /\ RECIPES_CACHE.ts = RECIPES_CACHE.src.at
       /\ now - RECIPES_CACHE.src.at < 15000]_vars

\* an answer from an entry populated two clock steps earlier
C18_Witness ==
  /\ resp.kind = "GET" /\ resp.hit
  /\ RECIPES_CACHE.body # ""
  /\ now - RECIPES_CACHE.ts >= 2 * StepMs

\* the element projected from a row has one field per field of the stored
\* body with the stored value, except that it has exactly one id, whose value
\* is the key of the row
ProjectsRow(row) ==
  LET el == SpreadWithId(row)
  IN  /\ Cardinality({ j \in 1..Len(el) : el[j][1] = "id" }) = 1
      /\ \A j \in 1..Len(el) :
           IF el[j][1] = "id" THEN el[j][2] = JsonStr(row.id)
           ELSE el[j][1] \in DOMAIN row.data /\ el[j][2] = row.data[el[j][1]]
      /\ \A k \in DOMAIN row.data : \E j \in 1..Len(el) : el[j][1] = k

\* C19: the select of a cache miss returns exactly one row per document of
\* the table recipes, in non-increasing updated_at; the body computed from it
\* is the serialization of one element per row in that order, and each
\* element's id is the key of its row, also when the stored body has an id of
\* its own.
C19_ListingProjectsStore ==
  [][\A s \in Slots :
       /\ (req[s].pc = "get_await" /\ req'[s].pc = "get_rows") =>
            LET rows == req'[s].rows
            IN  /\ \A id \in Ids :
                     Cardinality({ i \in 1..Len(rows) : rows[i].id = id })
                       = IF recipes[id].present THEN 1 ELSE 0
                /\ \A i \in 1..Len(rows) :
                     /\ rows[i].data = recipes[rows[i].id].data
                     /\ rows[i].updated_at = recipes[rows[i].id].updated_at
                /\ \A i \in 1..(Len(rows) - 1) :
                     rows[i].updated_at >= rows[i + 1].updated_at
       /\ (MissStep(s) /\ resp'.inm # ETagOf(req[s].rows, now)) =>
            LET rows == req[s].rows
            IN  /\ RECIPES_CACHE'.body =
                     "[" \o Join([i \in 1..Len(rows) |->
                                    StringifyPairs(SpreadWithId(rows[i]))], ",") \o "]"
                /\ resp'.status = 200 => resp'.body = RECIPES_CACHE'.body
                /\ \A i \in 1..Len(rows) : ProjectsRow(rows[i])]_vars

\* a recomputed listing of two documents, the newer one first, one of them
\* stored with an id that is not its key
C19_Witness ==
  /\ resp.kind = "GET" /\ resp.status = 200 /\ ~resp.hit
  /\ resp.body = RECIPES_CACHE.body
  /\ LET rows == RECIPES_CACHE.src.rows
     IN  /\ Len(rows) = 2
         /\ rows[1].updated_at > rows[2].updated_at
         /\ \E i \in 1..2 : /\ "id" \in DOMAIN rows[i].data
                             /\ rows[i].data["id"] # JsonStr(rows[i].id)

\* a send to the relay is in flight in slot s
Sending(s) == req[s].pc \in {"ord_send", "ord_json", "ord_fetch", "ord_fjson"}

\* C16: every send of a POST /orders is one of at most 3 attempts, made under
\* the abort timer of its turn (8 s, 12 s, 15 s); an attempt that fails, is
\* rejected or times out before the third is followed by the next attempt,
\* so a failure is answered only after the third; and the step that ends the
\* request sends its one response.
C16_OrdersRetryEscalating ==
  [][\A s \in Slots :
       (Sending(s) /\ req'[s] # req[s]) =>
         /\ req[s].attempt \in 1..3
         /\ req[s].timer = <<8000, 12000, 15000>>[req[s].attempt]
         /\ (req'[s].pc = "free") <=> (resp'.kind = "ORDER")
         /\ (resp'.kind = "ORDER" /\ resp'.status # 200) => req[s].attempt = 3
         /\ Sending(s)' => \/ req'[s].attempt = req[s].attempt + 1
                            \/ /\ req'[s].attempt = req[s].attempt
                               /\ req'[s].http \in {"2xx", "non2xx"}
                               /\ req[s].http = "-"]_vars

\* the relay acknowledged the send: HTTP ok and a body whose ok is not false
RelaySuccess(http, data) == http = "2xx" /\ data \in {"ok", "not_json"}

\* C21: POST /orders answers {ok:true} exactly when the send it just made was
\* acknowledged by the relay (HTTP ok and no ok: false in the body), and that
\* answer ends the request with no further attempt; every further attempt
\* follows a send that was not acknowledged; and 502 telegram_failed is sent
\* only when the third attempt failed, the two before it having failed too.
C21_OkIffAcknowledged ==
  [][\A s \in Slots :
       (req[s].pc = "ord_json" /\ req'[s] # req[s]) =>
         /\ (resp'.kind = "ORDER" /\ resp'.status = 200) =>
              /\ resp'.body = "{\"ok\":true}"
              /\ RelaySuccess(req[s].http, resp'.relay.data)
              /\ req'[s].pc = "free"
         /\ (req'[s].pc = "ord_send") =>
              /\ req'[s].attempt = req[s].attempt + 1
              /\ ~RelaySuccess(req[s].http, req'[s].lastErr.data)
         /\ (resp'.kind = "ORDER" /\ resp'.status # 200) =>
              /\ resp'.status = 502
              /\ req[s].attempt = 3
              /\ req[s].lastErr # NoErr
              /\ ~RelaySuccess(req[s].http, resp'.relay.data)]_vars

\* at least two characters remain between the outer blanks of a string
TwoAfterTrim(title) ==
  /\ title.type = "string"
  /\ \E i, j \in 1..Len(title.chars) :
       i < j /\ title.chars[i] # " " /\ title.chars[j] # " "

\* a POST /orders starts its first send in slot s
StartsSend(s) == req[s].pc = "free" /\ req'[s].pc \in {"ord_send", "ord_fetch"}

\* C22: a POST /orders starts a send to the relay only with the bot token and
\* chat id configured and a title that is a string of at least 2 characters
\* after trimming; the request answered 400 or 500 at arrival has started no
\* send.
C22_NoSendWhenRejected ==
  [][/\ \A s \in Slots :
          StartsSend(s) => (req'[s].creds /\ TwoAfterTrim(req'[s].title))
     /\ (resp'.kind = "ORDER" /\ \A s \in Slots : req[s].pc \notin
                                   {"ord_send", "ord_json", "ord_fetch", "ord_fjson"})
          => /\ resp'.status \in {400, 500}
             /\ req' = req]_vars

\* a request was turned away with 400 while no send is in flight
C22_Witness ==
  /\ resp.kind = "ORDER" /\ resp.status = 400
  /\ resp.body = "{\"error\":\"title is required\"}"
  /\ \A s \in Slots : req[s].pc = "free"

\* the value is a JSON object: none of the marks of the other kinds
IsObject(v) == DOMAIN v \cap {"missing", "null", "string", "number"} = {}

\* C23: a PUT /recipes/:id answered 400 has started no store write and
\* leaves the table and every field of the cache entry as they were; and a
\* PUT that goes on to the store carries an object as body.recipe, so a
\* missing, null, string or number recipe gets the 400.
C23_BadPutLeavesCache ==
  [][/\ (resp'.kind = "PUT" /\ resp'.status = 400) =>
          /\ resp'.body = "{\"error\":\"body.recipe required\"}"
          /\ UNCHANGED <<req, recipes, ver, RECIPES_CACHE>>
     /\ \A s \in Slots :
          (req[s].pc = "free" /\ req'[s].pc = "put_await")
            => IsObject(req'[s].data)]_vars

\* a PUT was answered 400 while the entry holds a listing
C23_Witness ==
  /\ resp.kind = "PUT" /\ resp.status = 400
  /\ RECIPES_CACHE.body # "" /\ RECIPES_CACHE.etag # ""

\* the payload is signed with the bot token and not older than 24 h
SignedAndRecent(p, botToken) ==
  /\ botToken /\ p.hash = "good"
  /\ (p.auth_date = 0 \/ p.auth_date >= 1000000 + now \div 1000 - 86400)

\* C24: a login endpoint goes on to the upsert of the users row only for a
\* payload that the verification accepts; the row is written, the token
\* signed and the rp_jwt cookie set only by a request that did so; and the
\* answer to a failed verification carries no token and no cookie and comes
\* with no write.
C24_LoginOnlyIfVerified ==
  [][/\ \A s \in Slots :
          (req[s].pc = "free" /\ req'[s].pc = "login_await")
            => SignedAndRecent(req'[s].payload, req'[s].creds)
     /\ users' # users =>
          \E s \in Slots : /\ req[s].pc = "login_await" /\ req'[s].pc = "login_ok"
                            /\ SignedAndRecent(req[s].payload, req[s].creds)
     /\ (resp'.jwt # "" \/ resp'.cookie # "") =>
          \E s \in Slots : /\ req[s].pc = "login_ok" /\ req'[s].pc = "free"
                            /\ SignedAndRecent(req[s].payload, req[s].creds)
                            /\ users[req[s].id].present
     /\ (resp'.kind = "LOGIN" /\ resp'.status \in {401, 403}) =>
          /\ resp'.jwt = "" /\ resp'.cookie = ""
          /\ UNCHANGED <<users, req>>]_vars

\* a login was answered with a token and the cookie, its users row written
C24_Witness ==
  /\ resp.kind = "LOGIN" /\ resp.status = 200
  /\ resp.jwt = "tg:7" /\ resp.cookie = "tg:7"
  /\ users["7"].present

\* the user id a payload carries: its top-level id or the id of its user
PayloadUserIds(p) == {p.id, ParsedUserId(p.user)} \ {Undefined, Null}

\* C25: a login goes on to the users row and the token only with the
\* non-empty user id of its payload, and the token issued has the subject
\* tg:<id> of that id; a payload without a user id gets neither.
C25_TokenSubjectIsUserId ==
  [][/\ \A s \in Slots :
          (req[s].pc = "free" /\ req'[s].pc = "login_await")
            => req'[s].id \in PayloadUserIds(req'[s].payload)
     /\ \A s \in Slots :
          (req[s].pc = "login_ok" /\ req'[s].pc = "free" /\ resp'.status \in {200, 302})
            => /\ \E id \in PayloadUserIds(req[s].payload) :
                    "tg:" \o id \in {resp'.jwt, resp'.cookie}
               /\ {resp'.jwt, resp'.cookie} \subseteq
                    {""} \cup {"tg:" \o id : id \in PayloadUserIds(req[s].payload)}]_vars

\* the owners a migration in flight moves documents between
MigFrom(s) == req[s].id
MigTo(s) == req[s].owner

\* C26: the commit of a migration leaves "from" without documents and "to"
\* with every document "from" had, a document of "to" with the same id
\* overwritten and every other row as it was; a migration that fails or is
\* answered 400 writes nothing.
C26_MigrateAtomic ==
  [][/\ \A s \in Slots :
          (req[s].pc = "mig_del" /\ req'[s].pc = "mig_ok") =>
            \A k \in DOMAIN local_recipes :
              IF k[1] = MigFrom(s) THEN ~local_recipes'[k].present
              ELSE IF k[1] = MigTo(s) /\ local_recipes[<<MigFrom(s), k[2]>>].present
              THEN /\ local_recipes'[k].present
                   /\ local_recipes'[k].data = local_recipes[<<MigFrom(s), k[2]>>].data
              ELSE local_recipes'[k] = local_recipes[k]
     /\ \A s \in Slots :
          (req[s].pc \in {"mig_begin", "mig_ins", "mig_del"} /\ req'[s].pc = "mig_err")
            => UNCHANGED local_recipes
     /\ (resp'.kind = "LMIGRATE" /\ resp'.status \in {400, 500})
            => UNCHANGED local_recipes]_vars

\* C27: while POST /auth/telegram/unlink has been answered ok for a user who
\* has a users row, and no link has switched the bot back on, the middleware
\* hands no update of that user to a handler; a sender without users row is
\* handed on.
C27_NoHandlerAfterUnlink ==
  [][\A s \in Slots :
       (req[s].pc = "use_ok" /\ req'[s].pc = "pub_sel") =>
         LET row == users[TgId(req[s].owner)]
         IN  ~(row.present /\ row.unlinkAcked /\ ~row.bot_enabled)]_vars

\* the request of slot s is a GET /recipes waiting for its query
GetInFlight(s) == req[s].pc \in {"get_await", "get_rows", "get_err"}

====
